---- MODULE Spec2Model ----
(***************************************************************************)
(* State-machine model of the plant/cycle integration                      *)
(* (custom_components/plant).  The module is organised in sections, one    *)
(* per group of entities; every section has its own specification that     *)
(* moves only that section's variables and leaves the others at rest.      *)
(*                                                                         *)
(*   SpecHealth    PlantDevice.update() over mirrored meters and derived   *)
(*                 sensors, thresholds and alarm triggers                  *)
(*   SpecMedian    a cycle's member list and its aggregate cache           *)
(*                 (PlantDevice._update_median_sensors)                    *)
(*   SpecPhase     growth phase selects of a cycle and its plants          *)
(*   SpecDuration  flowering duration numbers of a cycle and its plants    *)
(*   SpecConsumption  a plant's current water consumption sensor           *)
(*   SpecPpfd      a plant's PPFD sensor over its illuminance sensor       *)
(*   SpecTreatment, SpecTreatmentLive   a plant's treatment select         *)
(*   SpecEntries   config entries: setup flow, id counters, services       *)
(*   SpecRestore   a consumption or integral sensor across restarts        *)
(*   SpecMove      move_to_cycle between two cycles                        *)
(*   SpecReplace   the replace_sensor service over the meters              *)
(*   SpecWebsocket plant/get_info and plant/upload_image over one plant    *)
(*   SpecDates     start dates and durations of a cycle's growth phases    *)
(*   SpecTotal     a plant's total water consumption sensor                *)
(*   SpecTracking  mirrored meters and their subscriptions                 *)
(*   SpecRating    the health rating number and its history                *)
(*   SpecCapacity  water capacity numbers of a cycle and its plants        *)
(*   SpecArea      areas of a cycle and of its member plants               *)
(*   SpecMembershipmove_to_cycle over plants and cycles                    *)
(***************************************************************************)
EXTENDS Integers, Sequences, FiniteSets, TLC

\* Sensor states are numbers; the values a state can hold that are not numbers
\* (Python's None, "unknown", "unavailable") are encoded below zero so that
\* they can share a domain with the numeric readings.  No arithmetic or
\* ordering is ever applied to them: every use is guarded as in the code.
None == -1
STATE_UNKNOWN == -2
STATE_UNAVAILABLE == -3

\* Device states and per-reading statuses (homeassistant.const, const.py).
STATE_OK == "ok"
STATE_PROBLEM == "problem"
DEVICE_UNKNOWN == "unknown"
NoStatus == "None"
STATE_LOW == "Low"
STATE_HIGH == "High"

\* Largest numeric reading / threshold value the model enumerates.
MaxReading == 2

VARIABLES
    \* ---- health section (one plant-type PlantDevice) ----
    ext,          \* mirrored reading -> state of its external sensor in hass.states
    meter,        \* reading -> .state of the sensor entity PlantDevice.update() reads
    min_thr,      \* reading -> state of the min threshold entity
    max_thr,      \* reading -> state of the max threshold entity
    trigger,      \* reading -> the *_trigger option
    status,       \* reading -> the *_status attribute
    plant_state,  \* PlantDevice._attr_state
    \* ---- aggregate section (one cycle-type PlantDevice and its plants) ----
    member_plants,   \* PlantDevice._member_plants of the cycle (ordered)
    sensor_state,    \* plant -> .state of the plant's sensor of type sensor_type
    sensor_type,     \* the sensor type followed (each type is aggregated alone)
    aggregation,     \* the aggregation method configured for sensor_type
    median_sensors,  \* PlantDevice._median_sensors[sensor_type], in 1/Unit
    \* ---- growth phase section (the same cycle and plants) ----
    via_device,      \* plant -> its registry device has the cycle as via_device
    current_option,  \* plant -> current_option of its growth phase select
    cycle_option,    \* current_option of the cycle's growth phase select
    phase_aggregation,  \* the cycle select's aggregation_method attribute
    \* ---- flowering duration section (the same cycle and plants) ----
    flowering_duration,   \* plant -> native value of its flowering duration number
    cycle_duration,       \* native value of the cycle's flowering duration number
    duration_aggregation, \* PlantDevice.flowering_duration_aggregation of the cycle
    is_new,               \* the is_new_plant flag of the config entries
    call,                 \* <<entity, value>> of the latest set of a duration
    \* ---- water consumption section (one plant) ----
    history,              \* PlantCurrentMoistureConsumption._history: <<time, moisture>>
    now,                  \* the clock, in ticks of twelve hours
    moisture_consumption, \* native value of the sensor, in hundredths of a litre
    pot_size,             \* native value of the pot size number, in tenths of a litre
    water_capacity,       \* native value of the water capacity number, in percent
    moisture_log,         \* what the moisture sensor reported within the window
    \* ---- PPFD section (one plant) ----
    illuminance_state,    \* state of the plant's illuminance sensor in hass.states
    ppfd_added,           \* the PPFD sensor has a state in hass.states
    ppfd_value,           \* native value of the PPFD sensor, in 1/PpfdScale
    \* ---- treatment section (one plant) ----
    custom_treatments,    \* PlantTreatmentSelect._custom_treatments
    treatment_options,    \* PlantTreatmentSelect._attr_options
    treatment_option,     \* PlantTreatmentSelect._attr_current_option
    reset_tasks,          \* number of reset_treatment tasks sleeping
    treatment_result,     \* <<name, returned value>> of the latest add or remove
    \* ---- config entry section ----
    config_entries,       \* hass.config_entries of the domain, by slot
    counter,              \* the persisted counter store of each device type
    pending,              \* data["counter"] as loaded by a setup in flight
    domain_data,          \* hass.data[DOMAIN], by slot
    services,             \* the services of the domain that are registered
    last_id,              \* the id generated last for each device type
    entry_result,         \* <<slot, result>> of the latest entry operation
    \* ---- restored sensor section (one consumption or integral sensor) ----
    restore_sensor,       \* which sensor class the entity is
    native_value,         \* its _attr_native_value, in hundredths
    last_state,           \* the state the host holds for its entity id
    last_attributes,      \* the last_update attribute held with that state
    last_update,          \* its _last_update, a time or None
    restore_added,        \* async_added_to_hass has run for the entity
    \* ---- two cycles section ----
    cycle_state,          \* how far the setup of each cycle's entry has come
    cycle_members,        \* PlantDevice._member_plants of each cycle
    stored_members,       \* member_plants in the last state of each cycle's select
    plant_via,            \* via_device_id of each plant's device
    move_call,            \* <<plant, target, outcome>> of the latest move_to_cycle
    \* ---- replace_sensor section ----
    external_sensor,      \* PlantCurrentStatus._external_sensor of each meter
    meter_loaded,         \* the meter is in hass.data[DOMAIN][entry][ATTR_SENSORS]
    replace_call,         \* <<meter_entity, new_sensor, outcome>> of the latest call
    \* ---- websocket section ----
    hass_domain,          \* DOMAIN in hass.data
    plant_data,           \* the plant in hass.data[DOMAIN]: absent, incomplete, complete
    uploads_key,          \* "uploads" in hass.data[DOMAIN]
    upload_session,       \* hass.data[DOMAIN]["uploads"][entity_id]: <<final_filename>>
    temp_files,           \* chunks in the .part file of each file name
    image_files,          \* chunks in the final file of each file name
    entity_picture,       \* _attr_entity_picture of the plant
    images,               \* the images list of the plant's config entry
    next_chunk,           \* index of the chunk each upload sends next
    clock,                \* datetime.now() in seconds
    ws_response,          \* <<command, kind, code or content>> of the latest answer
    \* ---- phase dates section ----
    half_day,             \* datetime.now() in half days
    dated_option,         \* current option of the cycle's growth phase select
    member_option,        \* current option of the member's growth phase select
    phase_begin,          \* the "..._beginn" attribute of each phase
    phase_dauer,          \* the "..._dauer" attribute of each phase
    \* ---- total consumption section ----
    total_history,        \* PlantTotalWaterConsumption._history
    total_value,          \* its native value, in hundredths of a litre
    \* ---- tracking section ----
    track_external,       \* PlantCurrentStatus._external_sensor of each meter
    subscriptions,        \* sensors whose state changes reach each meter
    track_value,          \* _attr_native_value of each meter, in tenths
    track_event,          \* <<meter, sensor, state>> of the latest event
    \* ---- rating section ----
    rating_device,        \* device_type of the device the number belongs to
    health_history,       \* the health_history attribute: <<date, rating, stars>> entries
    health_value,         \* _attr_native_value of the health number, in tenths
    written_history,      \* health_history of the last written state
    written_value,        \* the value of the last written state
    \* ---- capacity section ----
    capacity_members,     \* _member_plants of the cycle
    pot_size_aggregation, \* PlantDevice.pot_size_aggregation of the cycle
    water_capacity_aggregation, \* PlantDevice.water_capacity_aggregation of the cycle
    member_capacity,      \* _attr_native_value of each plant's water capacity
    cycle_capacity,       \* _attr_native_value of the cycle's water capacity
    \* ---- area section ----
    cycle_area,           \* area_id of the cycle's registry device
    member_area,          \* area_id of each member plant's registry device
    location_area,        \* _location["area"] of the cycle's location text
    area_loaded,          \* members whose PlantDevice is in hass.data
    area_jobs,            \* events and tasks waiting on the event loop, oldest first
    area_ran,             \* the event or task that ran last
    \* ---- membership section ----
    device_members,       \* _member_plants of each PlantDevice
    device_via,           \* via_device_id of each registry device
    last          \* the operation that ran last, where a property is about one

healthVars == <<ext, meter, min_thr, max_thr, trigger, status, plant_state>>
medianVars == <<member_plants, sensor_state, sensor_type, aggregation, median_sensors>>
phaseVars == <<via_device, current_option, cycle_option, phase_aggregation>>
durationVars == <<flowering_duration, cycle_duration, duration_aggregation, is_new, call>>
consumptionVars ==
    <<history, now, moisture_consumption, pot_size, water_capacity, moisture_log>>
ppfdVars == <<illuminance_state, ppfd_added, ppfd_value>>
treatmentVars == <<custom_treatments, treatment_options, treatment_option,
                   reset_tasks, treatment_result>>
entryVars == <<config_entries, counter, pending, domain_data, services, last_id,
               entry_result>>
restoreVars == <<restore_sensor, native_value, last_state, last_attributes,
                 last_update, restore_added>>
moveVars == <<cycle_state, cycle_members, stored_members, plant_via, move_call>>
replaceVars == <<external_sensor, meter_loaded, replace_call>>
websocketVars == <<hass_domain, plant_data, uploads_key, upload_session, temp_files,
                   image_files, entity_picture, images, next_chunk, clock,
                   ws_response>>
datesVars == <<half_day, dated_option, member_option, phase_begin, phase_dauer>>
totalVars == <<total_history, total_value>>
trackingVars == <<track_external, subscriptions, track_value, track_event>>
ratingVars == <<rating_device, health_history, health_value, written_history, written_value>>
capacityVars == <<capacity_members, pot_size_aggregation, water_capacity_aggregation, member_capacity, cycle_capacity>>
areaVars == <<cycle_area, member_area, location_area, area_loaded, area_jobs, area_ran>>
membershipVars == <<device_members, device_via>>
fourthVars == <<datesVars, totalVars, trackingVars, ratingVars, capacityVars, areaVars, membershipVars>>
thirdVars == <<replaceVars, websocketVars, fourthVars>>
restVars == <<treatmentVars, entryVars, restoreVars, moveVars, thirdVars>>
sensorVars == <<consumptionVars, ppfdVars, restVars>>
vars == <<healthVars, medianVars, phaseVars, durationVars, sensorVars, last>>

\* What the actions of one section leave alone.
nonHealthVars == <<medianVars, phaseVars, durationVars, sensorVars>>
nonMedianVars == <<healthVars, phaseVars, durationVars, sensorVars>>
nonPhaseVars == <<healthVars, medianVars, durationVars, sensorVars>>
nonDurationVars == <<healthVars, sensor_state, sensor_type, aggregation, median_sensors,
                     current_option, cycle_option, phase_aggregation, sensorVars>>
nonConsumptionVars == <<healthVars, medianVars, phaseVars, flowering_duration,
                        cycle_duration, duration_aggregation, call, ppfdVars, restVars>>
nonPpfdVars == <<healthVars, medianVars, phaseVars, durationVars, consumptionVars,
                 restVars>>
\* The sections above, without the is_new_plant flag.
firstVars == <<healthVars, medianVars, phaseVars, flowering_duration, cycle_duration,
               duration_aggregation, call, consumptionVars, ppfdVars>>
nonTreatmentVars == <<firstVars, entryVars, restoreVars, moveVars, thirdVars>>
nonEntryVars == <<firstVars, is_new, treatmentVars, restoreVars, moveVars, thirdVars>>
nonRestoreVars == <<firstVars, treatmentVars, entryVars, moveVars, thirdVars>>
nonMoveVars == <<firstVars, is_new, treatmentVars, entryVars, restoreVars, thirdVars>>
secondVars == <<is_new, treatmentVars, entryVars, restoreVars, moveVars>>
nonReplaceVars == <<firstVars, secondVars, websocketVars, fourthVars>>
nonWebsocketVars == <<firstVars, secondVars, replaceVars, fourthVars>>
beforeFourthVars == <<firstVars, secondVars, replaceVars, websocketVars>>
nonDatesVars == <<beforeFourthVars, totalVars, trackingVars, ratingVars, capacityVars, areaVars, membershipVars>>
nonTotalVars == <<beforeFourthVars, datesVars, trackingVars, ratingVars, capacityVars, areaVars, membershipVars>>
nonTrackingVars == <<beforeFourthVars, datesVars, totalVars, ratingVars, capacityVars, areaVars, membershipVars>>
nonRatingVars == <<beforeFourthVars, datesVars, totalVars, trackingVars, capacityVars, areaVars, membershipVars>>
nonCapacityVars == <<beforeFourthVars, datesVars, totalVars, trackingVars, ratingVars, areaVars, membershipVars>>
nonAreaVars == <<beforeFourthVars, datesVars, totalVars, trackingVars, ratingVars, capacityVars, membershipVars>>
nonMembershipVars == <<beforeFourthVars, datesVars, totalVars, trackingVars, ratingVars, capacityVars, areaVars>>

(***************************************************************************)
(* Sequences of numbers, as the aggregation code uses them                 *)
(***************************************************************************)

RECURSIVE SumSeq(_)
SumSeq(s) == IF s = <<>> THEN 0 ELSE Head(s) + SumSeq(Tail(s))

RECURSIVE MinSeq(_)
MinSeq(s) ==
    IF Len(s) = 1 THEN s[1]
    ELSE LET m == MinSeq(Tail(s)) IN IF Head(s) <= m THEN Head(s) ELSE m

RECURSIVE MaxSeq(_)
MaxSeq(s) ==
    IF Len(s) = 1 THEN s[1]
    ELSE LET m == MaxSeq(Tail(s)) IN IF Head(s) >= m THEN Head(s) ELSE m

RECURSIVE Insert(_, _)
Insert(x, s) ==
    IF s = <<>> THEN <<x>>
    ELSE IF x <= Head(s) THEN <<x>> \o s
    ELSE <<Head(s)>> \o Insert(x, Tail(s))

\* sorted(values)
RECURSIVE Sorted(_)
Sorted(s) == IF s = <<>> THEN <<>> ELSE Insert(Head(s), Sorted(Tail(s)))

\* Python's round() of the non-negative rational n/d to an integer: to the
\* nearest, a tie going to the even neighbour.
RoundDiv(n, d) ==
    LET q == n \div d
        r == n % d
    IN IF 2 * r < d THEN q
       ELSE IF 2 * r > d THEN q + 1
       ELSE IF q % 2 = 0 THEN q ELSE q + 1

(***************************************************************************)
(* Health section                                                          *)
(***************************************************************************)

\* Readings of a plant mirrored from an external sensor (PlantCurrentStatus
\* subclasses) and readings computed by the integration itself (DLI and the
\* consumption sensors, which start at 0 and only ever hold numbers).
Mirrored == {"moisture"}
Derived == {"dli"}
Readings == Mirrored \cup Derived

\* The order in which update() walks the readings of a plant.
ReadingOrder == <<"moisture", "dli">>

Numbers == 0..MaxReading

\* What hass.states holds for an external sensor; NoSensor: the meter has no
\* external sensor configured (external_sensor is None).
NoSensor == -4
ExtStates == {NoSensor, STATE_UNKNOWN, STATE_UNAVAILABLE} \cup Numbers

\* PlantCurrentStatus._default_state
DefaultState == 0

\* Threshold configurations enumerated at construction: (min, max).
ThresholdPairs == {<<0, MaxReading>>, <<1, 1>>, <<MaxReading, 0>>}

\* The three-way comparison update() makes for one known reading.
StatusOfSwapped(v, lo, hi) ==
    IF v > hi THEN STATE_HIGH
    ELSE IF v < lo THEN STATE_LOW
    ELSE STATE_OK

StatusOf(v, lo, hi) ==
    IF v < lo THEN STATE_LOW
    ELSE IF v > hi THEN STATE_HIGH
    ELSE STATE_OK

\* A reading is usable by update() unless its sensor state is None,
\* unavailable or unknown.
Known(v) == v # None /\ v # STATE_UNAVAILABLE /\ v # STATE_UNKNOWN

\* One "if self.sensor_x is not None" block of update(): acc carries
\* new_state, known_state and the status attributes.
CheckReadingNoTrigger(r, acc) ==
    IF Known(meter[r])
    THEN LET s == StatusOf(meter[r], min_thr[r], max_thr[r])
         IN [new_state |-> IF s # STATE_OK THEN STATE_PROBLEM ELSE acc.new_state,
             known_state |-> TRUE,
             status |-> [acc.status EXCEPT ![r] = s]]
    ELSE acc

CheckReading(r, acc) ==
    IF Known(meter[r])
    THEN LET s == StatusOf(meter[r], min_thr[r], max_thr[r])
         IN [new_state |-> IF s # STATE_OK /\ trigger[r]
                           THEN STATE_PROBLEM ELSE acc.new_state,
             known_state |-> TRUE,
             status |-> [acc.status EXCEPT ![r] = s]]
    ELSE acc

RECURSIVE CheckReadings(_, _)
CheckReadings(order, acc) ==
    IF order = <<>> THEN acc
    ELSE CheckReadings(Tail(order), CheckReading(Head(order), acc))

\* PlantDevice.update(), plant branch.
Update ==
    LET acc == CheckReadings(ReadingOrder,
                   [new_state |-> STATE_OK, known_state |-> FALSE, status |-> status])
    IN /\ status' = acc.status
       /\ plant_state' = IF ~acc.known_state THEN DEVICE_UNKNOWN ELSE acc.new_state
       /\ last' = "update"
       /\ UNCHANGED <<ext, meter, min_thr, max_thr, trigger, nonHealthVars>>

\* PlantCurrentStatus.state_changed: the tracked external sensor changed state.
StateChanged(r, s) ==
    /\ ext[r] # NoSensor
    /\ s # NoSensor
    /\ ext' = [ext EXCEPT ![r] = s]
    /\ meter' = [meter EXCEPT ![r] = IF s # STATE_UNKNOWN /\ s # STATE_UNAVAILABLE
                                     THEN s ELSE DefaultState]
    /\ last' = "other"
    /\ UNCHANGED <<min_thr, max_thr, trigger, status, plant_state, nonHealthVars>>

\* PlantCurrentStatus.async_update: poll the external sensor.
MeterAsyncUpdate(r) ==
    /\ meter' = [meter EXCEPT ![r] =
                    IF ext[r] # NoSensor
                    THEN IF ext[r] \in Numbers THEN ext[r] ELSE DefaultState
                    ELSE DefaultState]
    /\ last' = "other"
    /\ UNCHANGED <<ext, min_thr, max_thr, trigger, status, plant_state, nonHealthVars>>

\* A derived sensor (DLI, consumption) writes a newly computed value.
DerivedChanged(r, v) ==
    /\ meter' = [meter EXCEPT ![r] = v]
    /\ last' = "other"
    /\ UNCHANGED <<ext, min_thr, max_thr, trigger, status, plant_state, nonHealthVars>>

\* After setup: the mirrored meters were attached (async_added_to_hass sets
\* their value to None), the derived sensors start at 0, no status computed.
InitHealth ==
    /\ ext \in [Mirrored -> ExtStates]
    /\ meter = [r \in Readings |-> IF r \in Mirrored THEN None ELSE 0]
    /\ \E lim \in [Readings -> ThresholdPairs] :
          /\ min_thr = [r \in Readings |-> lim[r][1]]
          /\ max_thr = [r \in Readings |-> lim[r][2]]
    /\ trigger \in [Readings -> BOOLEAN]
    /\ status = [r \in Readings |-> NoStatus]
    /\ plant_state = NoStatus

NextHealth ==
    \/ Update
    \/ \E r \in Mirrored, s \in ExtStates : StateChanged(r, s)
    \/ \E r \in Mirrored : MeterAsyncUpdate(r)
    \/ \E r \in Derived, v \in Numbers : DerivedChanged(r, v)

\* The health section at rest.
IdleHealth ==
    /\ ext = [r \in Mirrored |-> NoSensor]
    /\ meter = [r \in Readings |-> None]
    /\ min_thr = [r \in Readings |-> 0]
    /\ max_thr = [r \in Readings |-> 0]
    /\ trigger = [r \in Readings |-> TRUE]
    /\ status = [r \in Readings |-> NoStatus]
    /\ plant_state = NoStatus

(***************************************************************************)
(* Aggregate section: PlantDevice._update_median_sensors                   *)
(***************************************************************************)

\* The plant devices registered in hass.data[DOMAIN].
Plants == {"p1", "p2", "p3"}

\* const.py AGGREGATION_*
AGGREGATION_MEDIAN == "median"
AGGREGATION_MEAN == "mean"
AGGREGATION_MIN == "min"
AGGREGATION_MAX == "max"
AGGREGATION_ORIGINAL == "original"
AGGREGATION_METHODS ==
    {AGGREGATION_MEDIAN, AGGREGATION_MEAN, AGGREGATION_MIN, AGGREGATION_MAX}
AGGREGATION_METHODS_EXTENDED == AGGREGATION_METHODS \cup {AGGREGATION_ORIGINAL}

\* Sensor types followed: one of each rounding class of the aggregation.
\* "dli" is one of the types whose values are collected as (value, sensor)
\* pairs and that may be configured with the original method.
SensorTypes == {"temperature", "conductivity", "dli"}
ExtendedTypes == {"dli"}
OneDecimalTypes == {"temperature"}
ThreeDecimalTypes == {"dli"}

MethodsOf(t) ==
    IF t \in ExtendedTypes THEN AGGREGATION_METHODS_EXTENDED ELSE AGGREGATION_METHODS

\* Cached aggregates are kept in thousandths (the finest rounding applied to
\* the types followed), so that a rounded mean is an integer of the model.
Unit == 1000

\* Subsequence of the member list: the states of the members whose sensor
\* holds a usable value, in member order.
RECURSIVE MemberValues(_, _)
MemberValues(members, states) ==
    IF members = <<>> THEN <<>>
    ELSE IF Known(states[Head(members)])
         THEN <<states[Head(members)]>> \o MemberValues(Tail(members), states)
         ELSE MemberValues(Tail(members), states)

\* round(value, 3), round(value, 1) or round(value) of the rational n/d,
\* by sensor type, in thousandths.
RoundFor(t, n, d) ==
    IF t \in ThreeDecimalTypes THEN RoundDiv(Unit * n, d)
    ELSE IF t \in OneDecimalTypes THEN (Unit \div 10) * RoundDiv(10 * n, d)
    ELSE Unit * RoundDiv(n, d)

\* The median of an even count taken as the lower middle value.
AggregateNumLowerMedian(method, values) ==
    IF method = AGGREGATION_MEAN THEN SumSeq(values)
    ELSE IF method = AGGREGATION_MIN THEN MinSeq(values)
    ELSE IF method = AGGREGATION_MAX THEN MaxSeq(values)
    ELSE LET sorted == Sorted(values)
             n == Len(sorted)
         IN IF n % 2 = 0 THEN 2 * sorted[n \div 2]
            ELSE sorted[n \div 2 + 1]

\* The if / elif chain over the aggregation method: the aggregate of values
\* as the rational n/d.  Every method other than mean, min and max falls
\* into the last branch.
AggregateNum(method, values) ==
    IF method = AGGREGATION_MEAN THEN SumSeq(values)
    ELSE IF method = AGGREGATION_MIN THEN MinSeq(values)
    ELSE IF method = AGGREGATION_MAX THEN MaxSeq(values)
    ELSE LET sorted == Sorted(values)
             n == Len(sorted)
         IN IF n % 2 = 0 THEN sorted[n \div 2] + sorted[n \div 2 + 1]
            ELSE sorted[n \div 2 + 1]

AggregateDen(method, values) ==
    IF method = AGGREGATION_MEAN THEN Len(values)
    ELSE IF method \in {AGGREGATION_MIN, AGGREGATION_MAX} THEN 1
    ELSE IF Len(values) % 2 = 0 THEN 2 ELSE 1

\* The body of the "Berechne Aggregate" loop for one sensor type.  The
\* original branch stores the first value; the statements after it are not
\* skipped, so the rounded aggregate is stored over it in the same pass.
Aggregate(t, method, values, cache) ==
    LET afterOriginal ==
            IF t \in ExtendedTypes /\ method = AGGREGATION_ORIGINAL
            THEN Unit * values[1]
            ELSE cache
        afterRounding ==
            RoundFor(t, AggregateNum(method, values), AggregateDen(method, values))
    IN afterRounding

\* PlantDevice._update_median_sensors: the new cache entry for sensor_type.
UpdateMedianSensors(members, cache) ==
    IF members = <<>> THEN cache
    ELSE LET values == MemberValues(members, sensor_state)
         IN IF values = <<>> THEN cache
            ELSE Aggregate(sensor_type, aggregation, values, cache)

InSeq(x, s) == \E i \in 1..Len(s) : s[i] = x

RemoveFirst(x, s) == SelectSeq(s, LAMBDA y : y # x)

\* PlantDevice.add_member_plant (the aggregate cache is refreshed in the call).
AddMemberPlant(p) ==
    /\ ~InSeq(p, member_plants)
    /\ member_plants' = Append(member_plants, p)
    /\ median_sensors' = UpdateMedianSensors(member_plants', median_sensors)
    /\ last' = "add_member"
    /\ UNCHANGED <<sensor_state, sensor_type, aggregation, nonMedianVars>>

\* PlantDevice.remove_member_plant.
RemoveMemberPlant(p) ==
    /\ InSeq(p, member_plants)
    /\ member_plants' = RemoveFirst(p, member_plants)
    /\ median_sensors' = UpdateMedianSensors(member_plants', median_sensors)
    /\ last' = "remove_member"
    /\ UNCHANGED <<sensor_state, sensor_type, aggregation, nonMedianVars>>

\* CycleMedianSensor.async_update: the poll of a cycle sensor.
CycleSensorUpdate ==
    /\ median_sensors' = UpdateMedianSensors(member_plants, median_sensors)
    /\ last' = "update_median"
    /\ UNCHANGED <<member_plants, sensor_state, sensor_type, aggregation, nonMedianVars>>

\* A member plant's sensor takes a new state.
PlantSensorChanged(p, v) ==
    /\ sensor_state[p] # v
    /\ sensor_state' = [sensor_state EXCEPT ![p] = v]
    /\ last' = "other"
    /\ UNCHANGED <<member_plants, sensor_type, aggregation, median_sensors, nonMedianVars>>

SensorStates == {STATE_UNKNOWN} \cup Numbers

\* A cycle just set up: no members, an empty cache; its plants hold any state.
InitMedian ==
    /\ member_plants = <<>>
    /\ sensor_state \in [Plants -> SensorStates]
    /\ sensor_type \in SensorTypes
    /\ aggregation \in MethodsOf(sensor_type)
    /\ median_sensors = None

IdleMedian ==
    /\ member_plants = <<>>
    /\ sensor_state = [p \in Plants |-> STATE_UNKNOWN]
    /\ sensor_type = "temperature"
    /\ aggregation = AGGREGATION_MEAN
    /\ median_sensors = None

NextMedian ==
    \/ \E p \in Plants : AddMemberPlant(p)
    \/ \E p \in Plants : RemoveMemberPlant(p)
    \/ CycleSensorUpdate
    \/ \E p \in Plants, v \in SensorStates : PlantSensorChanged(p, v)

(***************************************************************************)
(* Growth phase section: PlantGrowthPhaseSelect, move_to_cycle             *)
(***************************************************************************)

\* const.py GROWTH_PHASE_* ("Bluete" stands for the umlaut spelling).
GROWTH_PHASE_SEEDS == "Samen"
GROWTH_PHASE_GERMINATION == "Keimen"
GROWTH_PHASE_ROOTING == "Wurzeln"
GROWTH_PHASE_GROWING == "Wachstum"
GROWTH_PHASE_FLOWERING == "Bluete"
GROWTH_PHASE_HARVESTED == "Geerntet"
GROWTH_PHASE_REMOVED == "Entfernt"
DEFAULT_GROWTH_PHASE == GROWTH_PHASE_ROOTING

GROWTH_PHASES ==
    {GROWTH_PHASE_SEEDS, GROWTH_PHASE_GERMINATION, GROWTH_PHASE_ROOTING,
     GROWTH_PHASE_GROWING, GROWTH_PHASE_FLOWERING, GROWTH_PHASE_HARVESTED,
     GROWTH_PHASE_REMOVED}

\* PlantGrowthPhaseSelect.phase_order
phase_order ==
    (GROWTH_PHASE_SEEDS :> 0) @@ (GROWTH_PHASE_GERMINATION :> 1)
    @@ (GROWTH_PHASE_ROOTING :> 2) @@ (GROWTH_PHASE_GROWING :> 3)
    @@ (GROWTH_PHASE_FLOWERING :> 4) @@ (GROWTH_PHASE_HARVESTED :> 5)

\* phase_order.get(x, default)
PhaseOrderGet(x, default) ==
    IF x \in DOMAIN phase_order THEN phase_order[x] ELSE default

\* The member_phases list with the Removed members left in.
MemberPhasesWithRemoved(members, options) ==
    [i \in 1..Len(members) |-> options[members[i]]]

\* The member_phases list of _update_cycle_phase: the options of the members,
\* in member order, without those in the Removed phase.
MemberPhases(members, options) ==
    SelectSeq([i \in 1..Len(members) |-> options[members[i]]],
              LAMBDA ph : ph # GROWTH_PHASE_REMOVED)

\* min(phases, key=...) and max(phases, key=...): the first element with the
\* least, respectively the greatest, key.
RECURSIVE MinByOrder(_)
MinByOrder(phases) ==
    IF Len(phases) = 1 THEN Head(phases)
    ELSE LET rest == MinByOrder(Tail(phases))
         IN IF PhaseOrderGet(Head(phases), 999) <= PhaseOrderGet(rest, 999)
            THEN Head(phases) ELSE rest

RECURSIVE MaxByOrder(_)
MaxByOrder(phases) ==
    IF Len(phases) = 1 THEN Head(phases)
    ELSE LET rest == MaxByOrder(Tail(phases))
         IN IF PhaseOrderGet(Head(phases), -1) >= PhaseOrderGet(rest, -1)
            THEN Head(phases) ELSE rest

\* PlantGrowthPhaseSelect._update_cycle_phase: the cycle's option afterwards.
CyclePhaseAfterUpdate(members, options, current) ==
    IF members = <<>> THEN current
    ELSE LET member_phases == MemberPhases(members, options)
         IN IF member_phases = <<>> THEN current
            ELSE IF phase_aggregation = "min" THEN MinByOrder(member_phases)
            ELSE MaxByOrder(member_phases)

\* The scheduled _update_cycle_phase of the cycle.
UpdateCyclePhase ==
    /\ cycle_option' = CyclePhaseAfterUpdate(member_plants, current_option, cycle_option)
    /\ last' = "update_cycle_phase"
    /\ UNCHANGED <<via_device, current_option, phase_aggregation, nonPhaseVars>>

\* async_select_option of a plant's select: the option is taken, and the
\* cycle the plant's device hangs under recomputes its phase.
PlantSelectOption(p, option) ==
    /\ current_option' = [current_option EXCEPT ![p] = option]
    /\ cycle_option' = IF via_device[p]
                       THEN CyclePhaseAfterUpdate(member_plants, current_option', cycle_option)
                       ELSE cycle_option
    /\ last' = "select_plant"
    /\ UNCHANGED <<via_device, phase_aggregation, nonPhaseVars>>

\* A registry that holds the device of one plant only.
DeviceOrderFirstOnly == <<"p1">>

\* Registry order of the plant devices.
DeviceOrder == <<"p1", "p2", "p3">>

\* async_select_option of the cycle's select: the loop over the registry
\* devices under the cycle, each plant select taking the option and making
\* the cycle recompute.  The state after the loop as <<options, cycle option>>.
RECURSIVE PushOption(_, _, _, _)
PushOption(devices, option, options, current) ==
    IF devices = <<>> THEN <<options, current>>
    ELSE LET p == Head(devices)
         IN IF via_device[p]
            THEN LET taken == [options EXCEPT ![p] = option]
                 IN PushOption(Tail(devices), option, taken,
                               CyclePhaseAfterUpdate(member_plants, taken, current))
            ELSE PushOption(Tail(devices), option, options, current)

CycleSelectOption(option) ==
    /\ LET after == PushOption(DeviceOrder, option, current_option, option)
       IN /\ current_option' = after[1]
          /\ cycle_option' = after[2]
    /\ last' = "select_cycle"
    /\ UNCHANGED <<via_device, phase_aggregation, nonPhaseVars>>

(***************************************************************************)
(* Flowering duration section: FloweringDurationNumber                     *)
(***************************************************************************)

\* The plants whose durations the model sets and moves.
DurationPlants == {"p1", "p2"}

\* Values passed to async_set_native_value, in half days; the odd ones are
\* not whole numbers of days.
SetValues == {1, 9, 10, 90}

\* Flowering duration of the config entry of a new device.
ConfigDuration == 0

\* round(value) of a value in half days.
RoundValue(halves) == RoundDiv(halves, 2)

\* FloweringDurationNumber._update_cycle_duration: the cycle's value afterwards.
CycleDurationAfterUpdate(members, values, current) ==
    IF members = <<>> THEN current
    ELSE LET durations == MemberValues(members, values)
         IN IF durations = <<>> THEN 0
            ELSE IF duration_aggregation = AGGREGATION_MEAN
                 THEN RoundDiv(SumSeq(durations), Len(durations))
            ELSE IF duration_aggregation = AGGREGATION_MIN THEN MinSeq(durations)
            ELSE IF duration_aggregation = AGGREGATION_MAX THEN MaxSeq(durations)
            ELSE LET sorted == Sorted(durations)
                     n == Len(sorted)
                 IN IF n % 2 = 0
                    THEN RoundDiv(sorted[n \div 2] + sorted[n \div 2 + 1], 2)
                    ELSE sorted[n \div 2 + 1]

\* The scheduled _update_cycle_duration of the cycle.
UpdateCycleDuration ==
    /\ cycle_duration' =
          CycleDurationAfterUpdate(member_plants, flowering_duration, cycle_duration)
    /\ last' = "update_cycle_duration"
    /\ UNCHANGED <<flowering_duration, duration_aggregation, is_new, call,
                   member_plants, via_device, nonDurationVars>>

\* async_set_native_value of a plant's number: the rounded value is taken and
\* the cycle the plant's device hangs under recomputes its own.
SetPlantDuration(p, halves) ==
    /\ flowering_duration' = [flowering_duration EXCEPT ![p] = RoundValue(halves)]
    /\ cycle_duration' =
          IF via_device[p]
          THEN CycleDurationAfterUpdate(member_plants, flowering_duration', cycle_duration)
          ELSE cycle_duration
    /\ call' = <<p, halves>>
    /\ last' = "set_plant_duration"
    /\ UNCHANGED <<duration_aggregation, is_new, member_plants, via_device,
                   nonDurationVars>>

\* No device at all.
NoChildren == {}

\* The registry devices that have the cycle as via_device.
CycleChildren == {p \in Plants : via_device[p]}

\* async_set_native_value of the cycle's number: the loop over the registry
\* devices under the cycle, each plant number taking the value and making the
\* cycle recompute.  The state after the loop as <<values, cycle value>>.
RECURSIVE PushDuration(_, _, _, _)
PushDuration(devices, halves, values, current) ==
    IF devices = <<>> THEN <<values, current>>
    ELSE LET p == Head(devices)
         IN IF p \in CycleChildren
            THEN LET taken == [values EXCEPT ![p] = RoundValue(halves)]
                 IN PushDuration(Tail(devices), halves, taken,
                                 CycleDurationAfterUpdate(member_plants, taken, current))
            ELSE PushDuration(Tail(devices), halves, values, current)

SetCycleDuration(halves) ==
    /\ LET after == PushDuration(DeviceOrder, halves, flowering_duration,
                                 RoundValue(halves))
       IN /\ flowering_duration' = after[1]
          /\ cycle_duration' = after[2]
    /\ call' = <<"cycle", halves>>
    /\ last' = "set_cycle_duration"
    /\ UNCHANGED <<duration_aggregation, is_new, member_plants, via_device,
                   nonDurationVars>>

\* The state string of a number entity holding a whole number, as the
\* sequence of its decimal digits, and int(float(state)) of such a string.
RECURSIVE StateString(_)
StateString(n) ==
    IF n < 10 THEN <<n>> ELSE Append(StateString(n \div 10), n % 10)

RECURSIVE IntOfFloat(_)
IntOfFloat(digits) ==
    IF digits = <<>> THEN 0
    ELSE 10 * IntOfFloat(SubSeq(digits, 1, Len(digits) - 1)) + digits[Len(digits)]

\* The value always taken from the config entry.
AddedToHassFromConfig(value) == ConfigDuration

\* FloweringDurationNumber.async_added_to_hass: the native value afterwards,
\* given the value the last state was written from.
AddedToHass(value) ==
    IF is_new THEN ConfigDuration ELSE IntOfFloat(StateString(value))

\* A restart of the host: every number entity is attached again.
Restart ==
    /\ flowering_duration' = [p \in Plants |-> AddedToHass(flowering_duration[p])]
    /\ cycle_duration' = AddedToHass(cycle_duration)
    /\ call' = IF is_new THEN <<>> ELSE call
    /\ last' = "restart"
    /\ UNCHANGED <<duration_aggregation, is_new, member_plants, via_device,
                   nonDurationVars>>

\* __init__.py async_setup_entry: the is_new_plant flag is cleared once the
\* entities of a new device are set up.
FinishSetup ==
    /\ is_new
    /\ is_new' = FALSE
    /\ last' = "other"
    /\ UNCHANGED <<flowering_duration, cycle_duration, duration_aggregation, call,
                   member_plants, via_device, nonDurationVars>>

(***************************************************************************)
(* Moving plants between cycles: services.py move_to_cycle                 *)
(***************************************************************************)

\* move_to_cycle for one plant, to the cycle or to no cycle: the plant leaves
\* the cycle its device hangs under, the registry is updated, the plant joins
\* the target cycle and the cycle's flowering duration is recomputed.
MoveToCycle(p, to_cycle) ==
    /\ LET removed == IF via_device[p] THEN RemoveFirst(p, member_plants)
                      ELSE member_plants
           added == IF to_cycle /\ ~InSeq(p, removed) THEN Append(removed, p)
                    ELSE removed
       IN /\ member_plants' = added
          /\ median_sensors' =
                UpdateMedianSensors(added,
                    IF via_device[p] /\ InSeq(p, member_plants)
                    THEN UpdateMedianSensors(removed, median_sensors)
                    ELSE median_sensors)
          /\ cycle_duration' =
                IF to_cycle
                THEN CycleDurationAfterUpdate(added, flowering_duration, cycle_duration)
                ELSE cycle_duration
    /\ via_device' = [via_device EXCEPT ![p] = to_cycle]
    /\ last' = "move_to_cycle"
    /\ UNCHANGED <<sensor_state, sensor_type, aggregation, current_option,
                   cycle_option, phase_aggregation, healthVars,
                   flowering_duration, duration_aggregation, is_new, call,
                   sensorVars>>

\* Plants and a cycle set up and attached: the default phase everywhere, no
\* plant in the cycle.
InitPhase ==
    /\ via_device = [p \in Plants |-> FALSE]
    /\ current_option \in [Plants -> {DEFAULT_GROWTH_PHASE, GROWTH_PHASE_REMOVED}]
    /\ cycle_option = DEFAULT_GROWTH_PHASE
    /\ phase_aggregation \in {"min", "max"}

IdlePhase ==
    /\ via_device = [p \in Plants |-> FALSE]
    /\ current_option = [p \in Plants |-> DEFAULT_GROWTH_PHASE]
    /\ cycle_option = DEFAULT_GROWTH_PHASE
    /\ phase_aggregation = "min"

\* The phases the model selects.
SelectedPhases ==
    {GROWTH_PHASE_SEEDS, GROWTH_PHASE_GROWING, GROWTH_PHASE_FLOWERING,
     GROWTH_PHASE_REMOVED}

NextPhase ==
    \/ UpdateCyclePhase
    \/ \E p \in Plants, o \in SelectedPhases : PlantSelectOption(p, o)
    \/ \E o \in SelectedPhases : CycleSelectOption(o)
    \/ \E p \in Plants, c \in BOOLEAN : MoveToCycle(p, c)

\* Numbers of plants and a cycle just created from their config entries.
InitDuration ==
    /\ flowering_duration = [p \in Plants |-> ConfigDuration]
    /\ cycle_duration = ConfigDuration
    /\ duration_aggregation \in AGGREGATION_METHODS
    /\ is_new = TRUE
    /\ call = <<>>

IdleNumbers ==
    /\ flowering_duration = [p \in Plants |-> ConfigDuration]
    /\ cycle_duration = ConfigDuration
    /\ duration_aggregation = AGGREGATION_MEAN
    /\ call = <<>>

IdleDuration == IdleNumbers /\ is_new = FALSE

NextDuration ==
    \/ UpdateCycleDuration
    \/ \E p \in DurationPlants, v \in SetValues : SetPlantDuration(p, v)
    \/ \E v \in SetValues : SetCycleDuration(v)
    \/ Restart
    \/ FinishSetup
    \/ \E p \in DurationPlants, c \in BOOLEAN : MoveToCycle(p, c)

(***************************************************************************)
(* Water consumption section: PlantCurrentMoistureConsumption              *)
(***************************************************************************)

\* Latest tick of the clock and longest history the model follows.
MaxTime == 3
MaxHistory == 3

\* timedelta(hours=24), in ticks.
WindowTicks == 2

\* States of the plant's moisture sensor that are numbers.
MoistureReadings == {40, 50, 60}

\* Pot sizes (0.4 and 2.0 litres) and water capacities of the model.
PotSizes == {4, 20}
WaterCapacities == {50, 100}

\* The sum of all changes between consecutive readings, rises included.
RECURSIVE TotalChange(_)
TotalChange(h) ==
    IF Len(h) < 2 THEN 0
    ELSE (IF h[2][2] < h[1][2] THEN h[1][2] - h[2][2] ELSE h[2][2] - h[1][2])
         + TotalChange(Tail(h))

\* sum(drops): the sum of the falls between consecutive entries.
RECURSIVE TotalDrop(_)
TotalDrop(h) ==
    IF Len(h) < 2 THEN 0
    ELSE (IF h[2][2] < h[1][2] THEN h[1][2] - h[2][2] ELSE 0)
         + TotalDrop(Tail(h))

\* round((total_drop / 100) * pot_size * (water_capacity / 100), 2), in
\* hundredths of a litre, pot_size being in tenths of a litre.
VolumeDrop(total_drop, pot, capacity) ==
    RoundDiv(total_drop * pot * capacity, 1000)

\* The history with a new entry, without the entries older than the window.
Pruned(h, time, value) ==
    SelectSeq(Append(h, <<time, value>>), LAMBDA e : e[1] >= time - WindowTicks)

\* PlantCurrentMoistureConsumption._state_changed_event.
MoistureEvent(state) ==
    /\ Len(Pruned(moisture_log, now, state)) <= MaxHistory
    /\ moisture_log' = IF Known(state) THEN Pruned(moisture_log, now, state)
                       ELSE moisture_log
    /\ IF is_new \/ ~Known(state)
       THEN /\ UNCHANGED <<history, moisture_consumption>>
            /\ last' = "other"
       ELSE /\ history' = Pruned(history, now, state)
            /\ moisture_consumption' =
                  IF Len(history') >= 2
                  THEN VolumeDrop(TotalDrop(history'), pot_size, water_capacity)
                  ELSE moisture_consumption
            /\ last' = "moisture_event"
    /\ UNCHANGED <<now, pot_size, water_capacity, is_new, nonConsumptionVars>>

\* Twelve hours pass.
Tick ==
    /\ now < MaxTime
    /\ now' = now + 1
    /\ last' = "other"
    /\ UNCHANGED <<history, moisture_consumption, pot_size, water_capacity, is_new,
                   moisture_log, nonConsumptionVars>>

\* __init__ and async_added_to_hass of the sensor at a restart of the host:
\* the history starts empty, the value is the restored one unless the entry
\* is new.
ConsumptionAddedToHass ==
    /\ history' = <<>>
    /\ moisture_consumption' = IF is_new THEN 0 ELSE moisture_consumption
    /\ last' = "consumption_added"
    /\ UNCHANGED <<now, pot_size, water_capacity, is_new, moisture_log,
                   nonConsumptionVars>>

InitConsumption ==
    /\ is_new \in BOOLEAN
    /\ history = <<>>
    /\ now = 0
    /\ moisture_consumption = 0
    /\ pot_size \in PotSizes
    /\ water_capacity \in WaterCapacities
    /\ moisture_log = <<>>

IdleConsumption ==
    /\ history = <<>>
    /\ now = 0
    /\ moisture_consumption = 0
    /\ pot_size = 4
    /\ water_capacity = 50
    /\ moisture_log = <<>>

NextConsumption ==
    \/ \E s \in MoistureReadings \cup {STATE_UNKNOWN} : MoistureEvent(s)
    \/ Tick
    \/ ConsumptionAddedToHass
    \/ FinishSetup

(***************************************************************************)
(* PPFD section: PlantCurrentPpfd                                          *)
(***************************************************************************)

\* const.py DEFAULT_LUX_TO_PPFD (0.0185), in ten-thousandths.
DEFAULT_LUX_TO_PPFD == 185

\* States of the plant's illuminance sensor that are numbers, in lux.
LuxReadings == {0, 1, 500, 1500, 10000, 30000, 200000}

\* No state object in hass.states.
IlluminanceStates ==
    {NoSensor, STATE_UNKNOWN, STATE_UNAVAILABLE} \cup LuxReadings

\* The conversion giving zero where there is no reading.
ppfdZero(value) ==
    IF value # None /\ value # STATE_UNAVAILABLE /\ value # STATE_UNKNOWN
    THEN value * DEFAULT_LUX_TO_PPFD
    ELSE 0

\* PlantCurrentPpfd.ppfd: value * DEFAULT_LUX_TO_PPFD / 1000000.  The result
\* is kept as its numerator over 10000 * 1000000.
ppfd(value) ==
    IF value # None /\ value # STATE_UNAVAILABLE /\ value # STATE_UNKNOWN
    THEN value * DEFAULT_LUX_TO_PPFD
    ELSE None

\* The body shared by async_update and state_changed of the PPFD sensor.
PpfdRead ==
    IF ~ppfd_added THEN ppfd_value
    ELSE IF illuminance_state # NoSensor THEN ppfd(illuminance_state)
    ELSE None

\* PlantCurrentPpfd.async_update.
PpfdAsyncUpdate ==
    /\ ppfd_value' = PpfdRead
    /\ last' = "ppfd_update"
    /\ UNCHANGED <<illuminance_state, ppfd_added, nonPpfdVars>>

\* PlantCurrentPpfd.state_changed.
PpfdStateChanged ==
    /\ ppfd_value' = PpfdRead
    /\ last' = "ppfd_state_changed"
    /\ UNCHANGED <<illuminance_state, ppfd_added, nonPpfdVars>>

\* PlantCurrentStatus.async_added_to_hass of the PPFD sensor.
PpfdAddedToHass ==
    /\ ppfd_added' = TRUE
    /\ ppfd_value' = None
    /\ last' = "other"
    /\ UNCHANGED <<illuminance_state, nonPpfdVars>>

\* The state of the plant's illuminance sensor in hass.states is written
\* or removed.
IlluminanceWritten(state) ==
    /\ illuminance_state # state
    /\ illuminance_state' = state
    /\ last' = "other"
    /\ UNCHANGED <<ppfd_added, ppfd_value, nonPpfdVars>>

InitPpfd ==
    /\ illuminance_state = NoSensor
    /\ ppfd_added = FALSE
    /\ ppfd_value = None

IdlePpfd == InitPpfd

NextPpfd ==
    \/ PpfdAsyncUpdate
    \/ PpfdStateChanged
    \/ PpfdAddedToHass
    \/ \E s \in IlluminanceStates : IlluminanceWritten(s)

(***************************************************************************)
(* Treatment section: PlantTreatmentSelect                                 *)
(***************************************************************************)

\* const.py TREATMENT_NONE and TREATMENT_OPTIONS
TREATMENT_NONE == ""
TREATMENT_OPTIONS ==
    <<"cut", "super cropping", "topping", "lollipop", "fim", "rib",
      "spray pest", "spray water">>

\* Names the model passes to the add and remove operations, and the options
\* it selects.
TreatmentNames == {"", "cut", "defoliation", "zinc"}

\* All names of the model in the order Python's string comparison gives them.
TreatmentOrder ==
    <<"", "cut", "defoliation", "fim", "lollipop", "rib", "spray pest",
      "spray water", "super cropping", "topping", "zinc">>

RankOf(name) == CHOOSE i \in 1..Len(TreatmentOrder) : TreatmentOrder[i] = name

\* sorted(list of names)
RECURSIVE InsertName(_, _)
InsertName(x, s) ==
    IF s = <<>> THEN <<x>>
    ELSE IF RankOf(x) < RankOf(Head(s)) THEN <<x>> \o s
    ELSE <<Head(s)>> \o InsertName(x, Tail(s))

RECURSIVE SortedNames(_)
SortedNames(s) ==
    IF s = <<>> THEN <<>> ELSE InsertName(s[Len(s)], SortedNames(SubSeq(s, 1, Len(s) - 1)))

\* The options left in the order they were put together.
LoadTreatmentOptionsUnsorted(custom) ==
    <<TREATMENT_NONE>> \o TREATMENT_OPTIONS \o custom

\* PlantTreatmentSelect._load_treatment_options
LoadTreatmentOptions(custom) ==
    SortedNames(<<TREATMENT_NONE>> \o TREATMENT_OPTIONS \o custom)

\* The name looked up among the built-in treatments only.
TreatmentExistsBuiltIn(name, options) == InSeq(name, TREATMENT_OPTIONS)

\* treatment_name in self._attr_options
TreatmentExists(name, options) == InSeq(name, options)

\* list.remove(x): the list without the first x.
RECURSIVE ListRemove(_, _)
ListRemove(x, s) ==
    IF s = <<>> THEN <<>>
    ELSE IF Head(s) = x THEN Tail(s)
    ELSE <<Head(s)>> \o ListRemove(x, Tail(s))

\* PlantTreatmentSelect.async_add_custom_treatment
AddCustomTreatment(name) ==
    /\ IF name = "" \/ TreatmentExists(name, treatment_options)
       THEN /\ treatment_result' = <<name, FALSE>>
            /\ UNCHANGED <<custom_treatments, treatment_options>>
       ELSE /\ custom_treatments' = Append(custom_treatments, name)
            /\ treatment_options' = LoadTreatmentOptions(custom_treatments')
            /\ treatment_result' = <<name, TRUE>>
    /\ last' = "add_treatment"
    /\ UNCHANGED <<treatment_option, reset_tasks, is_new, nonTreatmentVars>>

\* Entity ids the add_custom_treatment service is called with: the plant of
\* the select and an entity that is no plant of the integration.
TreatmentEntities == {"plant.p1", "plant.unknown"}
TREATMENT_COLORS == {"orange", "green"}

\* def async_add_custom_treatment(self, treatment_name): the parameters a
\* call has to bind besides self.
AddCustomTreatmentParameters == <<"treatment_name">>

\* A call with positional arguments binds when there is a parameter for each
\* argument and an argument for each parameter (none has a default);
\* otherwise Python raises TypeError before the body runs.
Binds(arguments, parameters) == Len(arguments) = Len(parameters)

\* services.py add_custom_treatment. The names of the model carry no
\* surrounding whitespace, so strip() leaves them as they are. The service
\* passes the name and the colour to the select's method.
AddCustomTreatmentService(entity_id, name, color) ==
    /\ treatment_result' =
           IF name = "" THEN <<name, FALSE, "empty_name">>
           ELSE IF entity_id # "plant.p1" THEN <<name, FALSE, "not_found">>
           ELSE IF ~Binds(<<name, color>>, AddCustomTreatmentParameters)
                THEN <<name, FALSE, "TypeError">>
           ELSE IF TreatmentExists(name, treatment_options)
                THEN <<name, FALSE, "exists">>
           ELSE <<name, TRUE, "added">>
    /\ custom_treatments' =
           IF treatment_result'[2] THEN Append(custom_treatments, name)
           ELSE custom_treatments
    /\ treatment_options' =
           IF treatment_result'[2] THEN LoadTreatmentOptions(custom_treatments')
           ELSE treatment_options
    /\ last' = "add_treatment_service"
    /\ UNCHANGED <<treatment_option, reset_tasks, is_new, nonTreatmentVars>>

\* PlantTreatmentSelect.async_remove_custom_treatment
RemoveCustomTreatment(name) ==
    /\ IF ~InSeq(name, custom_treatments)
       THEN /\ treatment_result' = <<name, FALSE>>
            /\ UNCHANGED <<custom_treatments, treatment_options, treatment_option>>
       ELSE /\ custom_treatments' = ListRemove(name, custom_treatments)
            /\ treatment_options' = LoadTreatmentOptions(custom_treatments')
            /\ treatment_option' = IF treatment_option = name THEN ""
                                   ELSE treatment_option
            /\ treatment_result' = <<name, TRUE>>
    /\ last' = "remove_treatment"
    /\ UNCHANGED <<reset_tasks, is_new, nonTreatmentVars>>

\* Most reset_treatment tasks the model lets sleep at once.
MaxResetTasks == 2

\* PlantTreatmentSelect.async_select_option: an empty option is taken as it
\* is; any other is taken and a reset_treatment task is started.
SelectTreatment(option) ==
    /\ InSeq(option, treatment_options)
    /\ treatment_option' = option
    /\ IF option = "" THEN UNCHANGED reset_tasks
       ELSE reset_tasks < MaxResetTasks /\ reset_tasks' = reset_tasks + 1
    /\ last' = "select_treatment"
    /\ UNCHANGED <<custom_treatments, treatment_options, treatment_result, is_new,
                   nonTreatmentVars>>

\* reset_treatment after its sleep of two seconds.
ResetTreatment ==
    /\ reset_tasks > 0
    /\ reset_tasks' = reset_tasks - 1
    /\ treatment_option' = ""
    /\ last' = "reset_treatment"
    /\ UNCHANGED <<custom_treatments, treatment_options, treatment_result, is_new,
                   nonTreatmentVars>>

\* __init__ and async_added_to_hass of the select at a restart of the host.
\* The tasks of the process that ended are gone; the last written state and
\* its custom_treatments attribute are those of the entity as it was.
TreatmentAddedToHass ==
    /\ custom_treatments' = IF is_new THEN <<>> ELSE custom_treatments
    /\ treatment_options' = LoadTreatmentOptions(custom_treatments')
    /\ treatment_option' = IF is_new THEN "" ELSE treatment_option
    /\ reset_tasks' = 0
    /\ last' = "treatment_added"
    /\ UNCHANGED <<treatment_result, is_new, nonTreatmentVars>>

InitTreatment ==
    /\ custom_treatments = <<>>
    /\ treatment_options = LoadTreatmentOptions(<<>>)
    /\ treatment_option = ""
    /\ reset_tasks = 0
    /\ treatment_result = <<>>

IdleTreatment == InitTreatment

NextTreatment ==
    \/ \E n \in TreatmentNames : AddCustomTreatment(n)
    \/ \E e \in TreatmentEntities, n \in TreatmentNames, c \in TREATMENT_COLORS :
          AddCustomTreatmentService(e, n, c)
    \/ \E n \in TreatmentNames : RemoveCustomTreatment(n)
    \/ \E o \in TreatmentNames : SelectTreatment(o)
    \/ ResetTreatment
    \/ TreatmentAddedToHass
    \/ FinishSetup

(***************************************************************************)
(* Config entries: setup flow, setup, unload and removal                   *)
(* (config_flow.py PlantConfigFlow, __init__.py async_setup_entry,         *)
(* async_unload_entry, async_remove_config_entry_device)                   *)
(***************************************************************************)
DEVICE_TYPE_PLANT == "plant"
DEVICE_TYPE_CYCLE == "cycle"
DEVICE_TYPE_CONFIG == "config"
DeviceTypes == {DEVICE_TYPE_PLANT, DEVICE_TYPE_CYCLE}

\* Config entries live in numbered slots; at most MaxEntries exist at a time
\* and the counter stores are not driven beyond MaxCounter.
MaxEntries == 2
MaxCounter == 1
Slots == 1..MaxEntries

NoEntry == [kind |-> "none", id |-> <<>>, state |-> "not_loaded"]

\* The services async_setup_services registers and the ones
\* async_unload_services removes.
ServicesRegistered ==
    {"replace_sensor", "change_position", "update_plant_attributes", "remove_plant",
     "create_plant", "create_cycle", "move_to_cycle", "remove_cycle", "clone_plant",
     "move_to_area", "add_image", "add_custom_treatment", "remove_custom_treatment"}

ServicesRemoved ==
    {"replace_sensor", "remove_plant", "create_plant", "create_cycle",
     "move_to_cycle", "remove_cycle", "move_to_area", "add_image",
     "change_position", "add_custom_treatment", "remove_custom_treatment"}

\* f"{next_id:04d}": the decimal digits, padded with zeros to four places.
RECURSIVE Digits(_)
Digits(n) == IF n < 10 THEN <<n>> ELSE Append(Digits(n \div 10), n % 10)

RECURSIVE PadLeft(_, _)
PadLeft(s, w) == IF Len(s) >= w THEN s ELSE PadLeft(<<0>> \o s, w)

Format04(n) == PadLeft(Digits(n), 4)

FreeSlots(es) == {s \in Slots : es[s].kind = "none"}

FirstFree(es) == CHOOSE s \in FreeSlots(es) : \A t \in FreeSlots(es) : s <= t

\* async_step_user: the entries whose device type is the configuration type.
FindConfigEntryNever(es) == {}

FindConfigEntry(es) == {s \in Slots : es[s].kind = DEVICE_TYPE_CONFIG}

\* async_remove_config_entry_device: the entries that are not flagged is_config.
OtherEntriesNone(es) == {}

OtherEntries(es) == {s \in Slots : es[s].kind \notin {"none", DEVICE_TYPE_CONFIG}}

\* PlantConfigFlow.async_step_user with the submitted device type, or None for
\* the first call of the step.
StepUser(user_input) ==
    /\ IF FindConfigEntry(config_entries) = {}
       THEN /\ FreeSlots(config_entries) # {}
            /\ config_entries' =
                  [config_entries EXCEPT ![FirstFree(config_entries)] =
                      [kind |-> DEVICE_TYPE_CONFIG, id |-> <<>>, state |-> "not_loaded"]]
            /\ entry_result' = <<FirstFree(config_entries), "create_entry">>
       ELSE /\ config_entries' = config_entries
            /\ entry_result' =
                  <<0, IF user_input = "none" THEN "form"
                       ELSE IF user_input = DEVICE_TYPE_CYCLE THEN "step_cycle"
                       ELSE "step_plant">>
    /\ last' = "step_user"
    /\ UNCHANGED <<counter, pending, domain_data, services, last_id, nonEntryVars>>

\* The flow steps that create the entry of a plant or a cycle:
\* async_step_import, async_step_cycle, async_step_limits_done.
CreateDeviceEntry(device_type) ==
    /\ FreeSlots(config_entries) # {}
    /\ config_entries' =
          [config_entries EXCEPT ![FirstFree(config_entries)] =
              [kind |-> device_type, id |-> <<>>, state |-> "not_loaded"]]
    /\ entry_result' = <<FirstFree(config_entries), "create_entry">>
    /\ last' = "create_entry"
    /\ UNCHANGED <<counter, pending, domain_data, services, last_id, nonEntryVars>>

\* async_setup_entry for the configuration entry, and for a plant or cycle
\* entry that already carries an id: no id is generated.
SetupEntry(s) ==
    /\ config_entries[s].kind # "none"
    /\ config_entries[s].state = "not_loaded"
    /\ config_entries[s].kind = DEVICE_TYPE_CONFIG \/ config_entries[s].id # <<>>
    /\ config_entries' = [config_entries EXCEPT ![s].state = "loaded"]
    /\ IF config_entries[s].kind = DEVICE_TYPE_CONFIG
       THEN /\ domain_data' = [domain_data EXCEPT ![s] = "config"]
            /\ services' = services
       ELSE /\ domain_data' = [domain_data EXCEPT ![s] = "plant"]
            /\ services' = services \cup ServicesRegistered
    /\ entry_result' = <<s, "true">>
    /\ last' = "setup_entry"
    /\ UNCHANGED <<counter, pending, last_id, nonEntryVars>>

\* async_setup_entry for a plant or cycle entry without an id, up to the point
\* where _get_next_id has loaded the counter store and waits to save it.
SetupEntryLoadCounter(s) ==
    /\ config_entries[s].kind \in DeviceTypes
    /\ config_entries[s].state = "not_loaded"
    /\ config_entries[s].id = <<>>
    /\ config_entries' = [config_entries EXCEPT ![s].state = "setup"]
    /\ domain_data' = [domain_data EXCEPT ![s] = "empty"]
    /\ pending' = [pending EXCEPT ![s] = counter[config_entries[s].kind]]
    /\ entry_result' = <<s, "pending">>
    /\ last' = "load_counter"
    /\ UNCHANGED <<counter, services, last_id, nonEntryVars>>

\* The rest of that setup: the counter is saved, the id written into the
\* entry, the device stored in hass.data and the services registered.  Storing
\* the device raises KeyError when an unload has meanwhile cleaned the entry's
\* empty dictionary away.
SetupEntrySaveCounter(s) ==
    /\ config_entries[s].state = "setup"
    /\ pending[s] < MaxCounter
    /\ LET device_type == config_entries[s].kind
           next_id == pending[s] + 1
           stored == domain_data[s] = "empty"
       IN /\ counter' = [counter EXCEPT ![device_type] = next_id]
          /\ last_id' = [last_id EXCEPT ![device_type] = Format04(next_id)]
          /\ config_entries' =
                [config_entries EXCEPT ![s].id = Format04(next_id),
                                       ![s].state = IF stored THEN "loaded" ELSE "failed"]
          /\ domain_data' = IF stored THEN [domain_data EXCEPT ![s] = "plant"]
                            ELSE domain_data
          /\ services' = IF stored THEN services \cup ServicesRegistered ELSE services
          /\ entry_result' = <<s, IF stored THEN "true" ELSE "error">>
    /\ pending' = [pending EXCEPT ![s] = 0]
    /\ last' = "allocate_id"
    /\ UNCHANGED nonEntryVars

\* hass.data[DOMAIN] after async_unload_entry of slot s: the entry's data is
\* popped; for a plant or cycle the empty dictionaries are cleaned away too.
DataAfterUnload(s) ==
    IF config_entries[s].kind = DEVICE_TYPE_CONFIG
    THEN [domain_data EXCEPT ![s] = "absent"]
    ELSE [t \in Slots |-> IF t = s \/ domain_data[t] = "empty" THEN "absent"
                          ELSE domain_data[t]]

\* The services after async_unload_entry of slot s: async_unload_services runs
\* when a plant or cycle is unloaded and hass.data[DOMAIN] is left empty.
ServicesAfterUnload(s) ==
    IF /\ config_entries[s].kind # DEVICE_TYPE_CONFIG
       /\ \A t \in Slots : DataAfterUnload(s)[t] = "absent"
    THEN services \ ServicesRemoved
    ELSE services

\* async_unload_entry of a loaded entry (reload, disable).
UnloadEntry(s) ==
    /\ config_entries[s].state = "loaded"
    /\ config_entries' = [config_entries EXCEPT ![s].state = "not_loaded"]
    /\ domain_data' = DataAfterUnload(s)
    /\ services' = ServicesAfterUnload(s)
    /\ entry_result' = <<s, "true">>
    /\ last' = "unload_entry"
    /\ UNCHANGED <<counter, pending, last_id, nonEntryVars>>

\* hass.config_entries.async_remove: the entry is unloaded if it is loaded,
\* then deleted.
RemoveEntry(s) ==
    /\ config_entries[s].kind # "none"
    /\ config_entries[s].state # "setup"
    /\ config_entries' = [config_entries EXCEPT ![s] = NoEntry]
    /\ domain_data' = IF config_entries[s].state = "loaded" THEN DataAfterUnload(s)
                      ELSE domain_data
    /\ services' = IF config_entries[s].state = "loaded" THEN ServicesAfterUnload(s)
                   ELSE services
    /\ entry_result' = <<s, "removed">>
    /\ last' = "remove_entry"
    /\ UNCHANGED <<counter, pending, last_id, nonEntryVars>>

\* async_remove_config_entry_device for the device of entry s, a device with
\* no parent cycle: refused for the configuration entry while an entry that is
\* not flagged is_config exists, otherwise the device and the entry are removed.
RemoveConfigEntryDevice(s) ==
    /\ config_entries[s].kind # "none"
    /\ config_entries[s].state # "setup"
    /\ IF /\ config_entries[s].kind = DEVICE_TYPE_CONFIG
          /\ OtherEntries(config_entries) # {}
       THEN /\ entry_result' = <<s, "false">>
            /\ UNCHANGED <<config_entries, domain_data, services>>
       ELSE /\ config_entries' = [config_entries EXCEPT ![s] = NoEntry]
            /\ domain_data' = IF config_entries[s].state = "loaded"
                              THEN DataAfterUnload(s) ELSE domain_data
            /\ services' = IF config_entries[s].state = "loaded"
                           THEN ServicesAfterUnload(s) ELSE services
            /\ entry_result' = <<s, "true">>
    /\ last' = "remove_device"
    /\ UNCHANGED <<counter, pending, last_id, nonEntryVars>>

\* The host restarts: nothing is loaded, hass.data and the service registry
\* are empty, setups in flight are gone; the entries and the counter stores
\* are persisted.
RestartHost ==
    /\ config_entries' =
          [s \in Slots |-> [config_entries[s] EXCEPT !.state = "not_loaded"]]
    /\ domain_data' = [s \in Slots |-> "absent"]
    /\ services' = {}
    /\ pending' = [s \in Slots |-> 0]
    /\ entry_result' = <<0, "restart">>
    /\ last' = "restart_host"
    /\ UNCHANGED <<counter, last_id, nonEntryVars>>

InitEntries ==
    /\ config_entries = [s \in Slots |-> NoEntry]
    /\ counter = [t \in DeviceTypes |-> 0]
    /\ pending = [s \in Slots |-> 0]
    /\ domain_data = [s \in Slots |-> "absent"]
    /\ services = {}
    /\ last_id = [t \in DeviceTypes |-> <<>>]
    /\ entry_result = <<>>

IdleEntries == InitEntries

NextEntries ==
    \/ \E i \in {"none", DEVICE_TYPE_PLANT, DEVICE_TYPE_CYCLE} : StepUser(i)
    \/ \E t \in DeviceTypes : CreateDeviceEntry(t)
    \/ \E s \in Slots : SetupEntry(s)
    \/ \E s \in Slots : SetupEntryLoadCounter(s)
    \/ \E s \in Slots : SetupEntrySaveCounter(s)
    \/ \E s \in Slots : UnloadEntry(s)
    \/ \E s \in Slots : RemoveEntry(s)
    \/ \E s \in Slots : RemoveConfigEntryDevice(s)
    \/ RestartHost

(***************************************************************************)
(* Restored sensors: PlantCurrentMoistureConsumption,                      *)
(* PlantTotalWaterConsumption, PlantDailyLightIntegral (sensor.py)         *)
(***************************************************************************)

\* The three classes share the text of __init__'s start value and of
\* async_added_to_hass; the entity modelled is one of them.
RestoredSensors == {"moisture_consumption", "total_water_consumption", "dli"}

\* The values the sensor's event handler can store (round(x, 2)), in
\* hundredths: 0.0, 0.05, 1.25, 10.0.
RestoreValues == {0, 5, 125, 1000}

\* No state is held for the entity id.
NoState == <<>>

\* The state string of a value with two decimals, as the digits before the
\* point and the hundredths after it, and float() of such a string.
ValueState(v) == <<StateString(v \div 100), v % 100>>

FloatOfState(s) == 100 * IntOfFloat(s[1]) + s[2]

\* The states the host can hold for the entity id when the entity is created:
\* none, unknown, unavailable, or what an entity of that id wrote before.
LastStates ==
    {NoState, <<STATE_UNKNOWN>>, <<STATE_UNAVAILABLE>>}
        \cup {ValueState(v) : v \in RestoreValues}

\* The times an event can carry.
EventTimes == {1, 2}

\* Nothing is ever restored.
RestoredValueZero(state) == 0

\* __init__ and async_added_to_hass: the native value once the entity is
\* attached, given the last state of its entity id.
RestoredValue(state) ==
    IF state \in {NoState, <<STATE_UNKNOWN>>, <<STATE_UNAVAILABLE>>} THEN 0
    ELSE IF ~is_new THEN FloatOfState(state)
    ELSE 0

\* The entity is constructed and attached (first setup, reload or restart of
\* the host); the host then writes the entity's state.
RestoreAddedToHass ==
    /\ native_value' = RestoredValue(last_state)
    /\ last_update' =
          IF /\ last_state \notin {NoState, <<STATE_UNKNOWN>>, <<STATE_UNAVAILABLE>>}
             /\ ~is_new
             /\ last_attributes # None
          THEN last_attributes
          ELSE None
    /\ last_state' = ValueState(native_value')
    /\ last_attributes' = last_update'
    /\ restore_added' = TRUE
    /\ last' = "restore_added"
    /\ UNCHANGED <<restore_sensor, is_new, nonRestoreVars>>

\* _state_changed_event: nothing is processed under a new entry; otherwise
\* the handler stores the value it computed and writes the state.
RestoreStateChanged(v, time) ==
    /\ restore_added
    /\ last_update = None \/ last_update <= time
    /\ IF is_new
       THEN UNCHANGED <<native_value, last_state, last_update, last_attributes>>
       ELSE /\ native_value' = v
            /\ last_update' = time
            /\ last_state' = ValueState(v)
            /\ last_attributes' = time
    /\ last' = "restore_event"
    /\ UNCHANGED <<restore_sensor, restore_added, is_new, nonRestoreVars>>

\* The device is removed and a device of the same name is created: the new
\* entry carries the is_new_plant flag, the entity id and the state held
\* for it are those of the old device.
RecreateDevice ==
    /\ restore_added
    /\ ~is_new
    /\ is_new' = TRUE
    /\ restore_added' = FALSE
    /\ native_value' = 0
    /\ last_update' = None
    /\ last' = "recreate"
    /\ UNCHANGED <<restore_sensor, last_state, last_attributes, nonRestoreVars>>

\* async_setup_entry clears the flag after the platforms have added their
\* entities.
RestoreFinishSetup == restore_added /\ FinishSetup

\* An entity just constructed under a new or an existing entry.
InitRestore ==
    /\ restore_sensor \in RestoredSensors
    /\ native_value = 0
    /\ last_state \in LastStates
    /\ last_attributes \in IF last_state = NoState THEN {None}
                           ELSE {None} \cup EventTimes
    /\ last_update = None
    /\ restore_added = FALSE

IdleRestore ==
    /\ restore_sensor = "dli"
    /\ native_value = 0
    /\ last_state = NoState
    /\ last_attributes = None
    /\ last_update = None
    /\ restore_added = FALSE

NextRestore ==
    \/ RestoreAddedToHass
    \/ \E v \in RestoreValues, time \in EventTimes : RestoreStateChanged(v, time)
    \/ RecreateDevice
    \/ RestoreFinishSetup

(***************************************************************************)
(* Two cycles: services.py move_to_cycle over the cycles in hass.data,     *)
(* the setup of a cycle's entry (__init__.py, select.py)                   *)
(***************************************************************************)
Cycles == {"c1", "c2"}
MovePlants == {"p1", "p2"}

\* The setup of a cycle's entry, by what has happened so far:
\*   "unloaded"  the entry is not set up, no PlantDevice is in hass.data
\*   "data"      async_setup_entry has stored the PlantDevice in hass.data
\*   "restored"  the growth phase select is attached and has restored the
\*               member list from its last state
\*   "loaded"    the PlantDevice entity is attached: update_registry has set
\*               its _device_id
CycleStates == {"unloaded", "data", "restored", "loaded"}

\* move_to_cycle: the cycle object whose device_id is the plant's
\* via_device_id, if hass.data holds one.
OldCycleFound(old) == old # "none" /\ cycle_state[old] = "loaded"

\* The select of a cycle writes its state, member_plants among the attributes.
SelectWrites(c) == cycle_state[c] \in {"restored", "loaded"}

\* move_to_cycle for one plant, to a cycle or to no cycle.
MoveToCycleService(p, target) ==
    /\ IF target # "none" /\ cycle_state[target] = "unloaded"
       THEN /\ move_call' = <<p, target, "not_found">>
            /\ UNCHANGED <<cycle_members, stored_members, plant_via>>
       ELSE LET old == plant_via[p]
                removes == OldCycleFound(old) /\ InSeq(p, cycle_members[old])
                removed == IF removes
                           THEN [cycle_members EXCEPT ![old] = RemoveFirst(p, @)]
                           ELSE cycle_members
                adds == target # "none" /\ ~InSeq(p, removed[target])
                added == IF adds THEN [removed EXCEPT ![target] = Append(@, p)]
                         ELSE removed
            IN /\ cycle_members' = added
               /\ stored_members' =
                     [c \in Cycles |->
                         IF /\ (c = old /\ removes) \/ (c = target /\ adds)
                            /\ SelectWrites(c)
                         THEN added[c] ELSE stored_members[c]]
               /\ plant_via' = [plant_via EXCEPT ![p] = target]
               /\ move_call' = <<p, target, "moved">>
    /\ last' = "move_to_cycle"
    /\ UNCHANGED <<cycle_state, nonMoveVars>>

\* async_unload_entry of a cycle's entry: its PlantDevice leaves hass.data.
CycleUnload(c) ==
    /\ cycle_state[c] = "loaded"
    /\ cycle_state' = [cycle_state EXCEPT ![c] = "unloaded"]
    /\ cycle_members' = [cycle_members EXCEPT ![c] = <<>>]
    /\ last' = "cycle_unload"
    /\ UNCHANGED <<stored_members, plant_via, move_call, nonMoveVars>>

\* async_setup_entry of a cycle's entry up to the forwarding to the
\* platforms: a PlantDevice with an empty member list is in hass.data.
CycleSetupData(c) ==
    /\ cycle_state[c] = "unloaded"
    /\ cycle_state' = [cycle_state EXCEPT ![c] = "data"]
    /\ cycle_members' = [cycle_members EXCEPT ![c] = <<>>]
    /\ last' = "cycle_data"
    /\ UNCHANGED <<stored_members, plant_via, move_call, nonMoveVars>>

\* PlantGrowthPhaseSelect.async_added_to_hass of a cycle that is not new: the
\* member list is replaced by the one in the select's last state.
CycleSelectAdded(c) ==
    /\ cycle_state[c] = "data"
    /\ cycle_state' = [cycle_state EXCEPT ![c] = "restored"]
    /\ cycle_members' = [cycle_members EXCEPT ![c] = stored_members[c]]
    /\ last' = "cycle_select_added"
    /\ UNCHANGED <<stored_members, plant_via, move_call, nonMoveVars>>

\* PlantDevice.async_added_to_hass of the cycle: update_registry sets
\* _device_id.
CycleAddedToHass(c) ==
    /\ cycle_state[c] = "restored"
    /\ cycle_state' = [cycle_state EXCEPT ![c] = "loaded"]
    /\ last' = "cycle_added"
    /\ UNCHANGED <<cycle_members, stored_members, plant_via, move_call, nonMoveVars>>

\* Two cycles set up, without members; no plant has a parent.
InitMove ==
    /\ cycle_state = [c \in Cycles |-> "loaded"]
    /\ cycle_members = [c \in Cycles |-> <<>>]
    /\ stored_members = [c \in Cycles |-> <<>>]
    /\ plant_via = [p \in MovePlants |-> "none"]
    /\ move_call = <<>>

IdleMove == InitMove

NextMove ==
    \/ \E p \in MovePlants, target \in Cycles \cup {"none"} : MoveToCycleService(p, target)
    \/ \E c \in Cycles : CycleUnload(c)
    \/ \E c \in Cycles : CycleSetupData(c)
    \/ \E c \in Cycles : CycleSelectAdded(c)
    \/ \E c \in Cycles : CycleAddedToHass(c)

(***************************************************************************)
(* services.py replace_sensor                                              *)
(***************************************************************************)

\* Entity ids are <<domain, object id>>; the empty string is <<>>.
\* The integration's meters, and the entity ids a call can name as target.
Meters == {<<"sensor", "plant_moisture">>, <<"sensor", "plant_temperature">>}

MeterTargets == Meters \cup {<<"sensor", "soil">>, <<"number", "plant_max_moisture">>}

\* The replacements a call can name: none, sensors with a state, a sensor
\* without a state, entities of other domains with a state.
NewSensors ==
    {<<>>, <<"sensor", "soil">>, <<"sensor", "air">>, <<"sensor", "missing">>,
     <<"switch", "pump">>, <<"binary_sensor", "soil">>}

\* hass.states.get(entity_id) is not None.
HasState(entity_id) ==
    \/ entity_id \in Meters /\ meter_loaded[entity_id]
    \/ entity_id \in {<<"sensor", "soil">>, <<"sensor", "air">>, <<"switch", "pump">>,
                      <<"binary_sensor", "soil">>, <<"number", "plant_max_moisture">>}

\* Any entity id is taken for a sensor.
StartsWithAnything(entity_id) == TRUE

\* new_sensor.startswith("sensor.")
StartsWithSensor(entity_id) == entity_id # <<>> /\ entity_id[1] = "sensor"

\* replace_sensor(meter_entity, new_sensor).
ReplaceSensor(meter_entity, new_sensor) ==
    /\ LET found == meter_entity \in Meters /\ meter_loaded[meter_entity]
           outcome ==
               IF ~found THEN "refused_target"
               ELSE IF new_sensor # <<>> /\ ~StartsWithSensor(new_sensor)
                    THEN "refused_sensor"
               ELSE IF ~HasState(meter_entity) THEN "meter_not_found"
               ELSE IF new_sensor # <<>> /\ ~HasState(new_sensor)
                    THEN "sensor_not_found"
               ELSE "replaced"
       IN /\ external_sensor' =
                IF outcome = "replaced"
                THEN [external_sensor EXCEPT ![meter_entity] = new_sensor]
                ELSE external_sensor
          /\ replace_call' = <<meter_entity, new_sensor, outcome>>
    /\ last' = "replace_sensor"
    /\ UNCHANGED <<meter_loaded, nonReplaceVars>>

\* async_unload_entry of the meter's entry: the meter leaves hass.data.
MeterUnload(m) ==
    /\ meter_loaded[m]
    /\ meter_loaded' = [meter_loaded EXCEPT ![m] = FALSE]
    /\ last' = "meter_unload"
    /\ UNCHANGED <<external_sensor, replace_call, nonReplaceVars>>

\* The meter is set up again: PlantCurrentStatus.async_added_to_hass takes
\* the external sensor from the attributes of its last state.
MeterLoad(m) ==
    /\ ~meter_loaded[m]
    /\ meter_loaded' = [meter_loaded EXCEPT ![m] = TRUE]
    /\ last' = "meter_load"
    /\ UNCHANGED <<external_sensor, replace_call, nonReplaceVars>>

InitReplace ==
    /\ external_sensor = [m \in Meters |-> <<>>]
    /\ meter_loaded = [m \in Meters |-> TRUE]
    /\ replace_call = <<>>

IdleReplace == InitReplace

NextReplace ==
    \/ \E m \in MeterTargets, s \in NewSensors : ReplaceSensor(m, s)
    \/ \E m \in Meters : MeterUnload(m)
    \/ \E m \in Meters : MeterLoad(m)

(***************************************************************************)
(* Websocket section: plant/get_info and plant/upload_image over one plant *)
(***************************************************************************)

\* The uploads the model lets run against the plant, each a client that sends
\* its chunks in index order, one request after the answer to the one before.
Uploads == {"a", "b"}

\* total_chunks of every upload.
TotalChunks == 2

\* Seconds datetime.now() can show while the uploads run.
MaxClock == 2

\* Position of an upload that has sent all its chunks or was told of an error.
Finished == TotalChunks

\* final_filename: "{breeder}_{strain}{ext}" for the first picture of the
\* plant, "{entity_id}_{timestamp}{ext}" for every later one.
BreederStrainName == <<"Breeder_Strain">>
TimestampName(time) == <<"plant.p1", time>>
FileNames == {BreederStrainName} \cup {TimestampName(t) : t \in 1..MaxClock}

\* f"/local/images/plants/{final_filename}" and its split("/")[-1]
PicturePath(name) == <<"local", "images", "plants", name>>
PictureFilename(path) == path[Len(path)]

NoFile == <<>>
NoSession == <<>>

\* async_setup_entry up to the platforms: hass.data[DOMAIN] exists and holds
\* a PlantDevice that is not complete yet.
PlantSetupData ==
    /\ plant_data = "absent"
    /\ hass_domain' = TRUE
    /\ plant_data' = "incomplete"
    /\ last' = "plant_setup"
    /\ UNCHANGED <<uploads_key, upload_session, temp_files, image_files,
                   entity_picture, images, next_chunk, clock, ws_response,
                   nonWebsocketVars>>

\* PlantDevice.add_dli, called by the sensor platform's setup.
AddDli ==
    /\ plant_data = "incomplete"
    /\ plant_data' = "complete"
    /\ last' = "add_dli"
    /\ UNCHANGED <<hass_domain, uploads_key, upload_session, temp_files, image_files,
                   entity_picture, images, next_chunk, clock, ws_response,
                   nonWebsocketVars>>

\* async_unload_entry of the plant's entry: the entry's data are popped, keys
\* of hass.data[DOMAIN] whose value is empty are deleted ("uploads" without a
\* session among them), and hass.data[DOMAIN] is deleted when nothing is left.
PlantUnload ==
    /\ plant_data = "complete"
    /\ plant_data' = "absent"
    /\ uploads_key' = (uploads_key /\ upload_session # NoSession)
    /\ hass_domain' = uploads_key'
    /\ last' = "plant_unload"
    /\ UNCHANGED <<upload_session, temp_files, image_files, entity_picture, images,
                   next_chunk, clock, ws_response, nonWebsocketVars>>

\* The clock reaches the next second.
ClockTick ==
    /\ clock < MaxClock
    /\ clock' = clock + 1
    /\ last' = "tick"
    /\ UNCHANGED <<hass_domain, plant_data, uploads_key, upload_session, temp_files,
                   image_files, entity_picture, images, next_chunk, ws_response,
                   nonWebsocketVars>>

\* PlantDevice.websocket_info
WebsocketInfo == IF plant_data # "complete" THEN "empty" ELSE "info"

\* PlantDevice.extra_state_attributes: the dictionary is built from
\* _plant_info and the status fields whatever plant_complete is.
ExtraStateAttributes == "attributes"

\* ws_get_info
WsGetInfo(entity_id) ==
    /\ ws_response' =
          IF ~hass_domain THEN <<"get_info", "error", "domain_not_found">>
          ELSE IF plant_data # "absent" /\ entity_id = "plant.p1"
               THEN <<"get_info", "result", WebsocketInfo>>
          ELSE <<"get_info", "error", "entity_not_found">>
    /\ last' = "get_info"
    /\ UNCHANGED <<hass_domain, plant_data, uploads_key, upload_session, temp_files,
                   image_files, entity_picture, images, next_chunk, clock,
                   nonWebsocketVars>>

\* The plant's state is written: extra_state_attributes is read.
ReadAttributes ==
    /\ plant_data # "absent"
    /\ ws_response' = <<"attributes", "result", ExtraStateAttributes>>
    /\ last' = "read_attributes"
    /\ UNCHANGED <<hass_domain, plant_data, uploads_key, upload_session, temp_files,
                   image_files, entity_picture, images, next_chunk, clock,
                   nonWebsocketVars>>

\* The except branch of ws_upload_image: the temp file of the entity's
\* session, if there is one, is unlinked and the session deleted.
TempAfterCleanup(session, files) ==
    IF session = NoSession THEN files
    ELSE [files EXCEPT ![session[1]] = NoFile]

\* The images list after the last chunk of a file with this name.
ImagesAfterFinalize(name, picture) ==
    IF picture # <<>> /\ name # PictureFilename(picture) /\ ~InSeq(name, images)
    THEN Append(images, name)
    ELSE images

\* ws_upload_image for the next chunk of upload u, sent for entity plant.p1.
\* io tells which of the handler's file operations fails, if any.
WsUploadImage(u, io) ==
    /\ next_chunk[u] < TotalChunks
    /\ LET chunk_index == next_chunk[u]
           first == chunk_index = 0
           picture0 == IF first /\ entity_picture = <<>>
                       THEN PicturePath(BreederStrainName) ELSE entity_picture
           name0 == IF entity_picture = <<>> THEN BreederStrainName
                    ELSE TimestampName(clock)
           session0 == IF first THEN <<name0>> ELSE upload_session
           name == session0[1]
           written == IF first THEN <<<<u, chunk_index>>>>
                      ELSE temp_files[name] \o <<<<u, chunk_index>>>>
           final == chunk_index = TotalChunks - 1
       IN  IF ~hass_domain
           THEN \* hass.data[DOMAIN] before the try block
                /\ ws_response' = <<"upload_image", "raised", "KeyError">>
                /\ UNCHANGED <<uploads_key, upload_session, temp_files, image_files,
                               entity_picture, images>>
           ELSE IF plant_data = "absent"
           THEN /\ ws_response' = <<"upload_image", "error", "entity_not_found">>
                /\ UNCHANGED <<uploads_key, upload_session, temp_files, image_files,
                               entity_picture, images>>
           ELSE IF io = "makedirs"
           THEN /\ ws_response' = <<"upload_image", "error", "upload_failed">>
                /\ temp_files' = IF uploads_key
                                 THEN TempAfterCleanup(upload_session, temp_files)
                                 ELSE temp_files
                /\ upload_session' = NoSession
                /\ UNCHANGED <<uploads_key, image_files, entity_picture, images>>
           ELSE IF ~first /\ ~uploads_key
           THEN \* hass.data[DOMAIN]["uploads"] inside the try block
                /\ ws_response' = <<"upload_image", "error", "upload_failed">>
                /\ UNCHANGED <<uploads_key, upload_session, temp_files, image_files,
                               entity_picture, images>>
           ELSE IF ~first /\ upload_session = NoSession
           THEN /\ ws_response' = <<"upload_image", "error", "upload_error">>
                /\ UNCHANGED <<uploads_key, upload_session, temp_files, image_files,
                               entity_picture, images>>
           ELSE IF io = "write"
           THEN /\ ws_response' = <<"upload_image", "error", "upload_failed">>
                /\ temp_files' = TempAfterCleanup(session0, temp_files)
                /\ upload_session' = NoSession
                /\ uploads_key' = TRUE
                /\ entity_picture' = picture0
                /\ UNCHANGED <<image_files, images>>
           ELSE /\ ws_response' = <<"upload_image", "result", "success">>
                /\ uploads_key' = TRUE
                /\ entity_picture' = IF final /\ picture0 = <<>>
                                     THEN PicturePath(name) ELSE picture0
                /\ temp_files' = [temp_files EXCEPT ![name] =
                                     IF final THEN NoFile ELSE written]
                /\ image_files' = IF final
                                  THEN [image_files EXCEPT ![name] = written]
                                  ELSE image_files
                /\ images' = IF final THEN ImagesAfterFinalize(name, picture0)
                             ELSE images
                /\ upload_session' = IF final THEN NoSession ELSE session0
    /\ next_chunk' = [next_chunk EXCEPT ![u] =
                         IF ws_response'[2] = "result" THEN next_chunk[u] + 1
                         ELSE Finished]
    /\ last' = "upload_image"
    /\ UNCHANGED <<hass_domain, plant_data, clock, nonWebsocketVars>>

InitWebsocket ==
    /\ hass_domain = TRUE
    /\ plant_data = "complete"
    /\ uploads_key = FALSE
    /\ upload_session = NoSession
    /\ temp_files = [n \in FileNames |-> NoFile]
    /\ image_files = [n \in FileNames |-> NoFile]
    /\ entity_picture \in {<<>>, PicturePath(BreederStrainName)}
    /\ images = <<>>
    /\ next_chunk = [u \in Uploads |-> 0]
    /\ clock = 1
    /\ ws_response = <<>>

IdleWebsocket == InitWebsocket /\ entity_picture = <<>>

NextWebsocket ==
    \/ PlantSetupData
    \/ AddDli
    \/ PlantUnload
    \/ ClockTick
    \/ \E e \in {"plant.p1", "plant.unknown"} : WsGetInfo(e)
    \/ ReadAttributes
    \/ \E u \in Uploads, io \in {"ok", "makedirs", "write"} : WsUploadImage(u, io)

(***************************************************************************)
(* Phase dates section: the start dates and durations a cycle's growth     *)
(* phase select keeps in its attributes; the cycle has one member plant    *)
(***************************************************************************)

\* Time runs in half days, so that timedelta.days has something to drop.
MaxHalfDays == 3

\* The phases the model selects; all of them are keys of date_mapping and of
\* duration_mapping.
DatedPhases ==
    {GROWTH_PHASE_ROOTING, GROWTH_PHASE_GROWING, GROWTH_PHASE_FLOWERING,
     GROWTH_PHASE_REMOVED}

\* (end_date - start_date).days: two half days make a day.
ElapsedDays(start, end) == (end - start) \div 2

\* PlantGrowthPhaseSelect._calculate_phase_duration: the duration attributes
\* afterwards.
CalculatePhaseDuration(old_phase, begin, dauer, end_date) ==
    IF old_phase \notin DatedPhases \/ begin[old_phase] = None THEN dauer
    ELSE [dauer EXCEPT ![old_phase] = ElapsedDays(begin[old_phase], end_date)]

\* PlantGrowthPhaseSelect.async_select_option of the cycle: the duration of
\* the phase that is left, the date of the phase that is entered, and the
\* option pushed to the member, whose own select then has the cycle
\* recompute its phase from the member.
DatedSelectOption(option) ==
    /\ phase_dauer' = CalculatePhaseDuration(dated_option, phase_begin, phase_dauer,
                                             half_day)
    /\ member_option' = option
    /\ LET derived == CyclePhaseAfterUpdate(<<"p1">>, [p \in Plants |-> option], option)
       IN /\ dated_option' = derived
          /\ phase_begin' = [phase_begin EXCEPT ![option] = half_day,
                                                ![derived] = half_day]
    /\ last' = "dated_select"
    /\ UNCHANGED <<half_day, nonDatesVars>>

\* async_select_option of the member plant, which ends with the cycle's
\* _update_cycle_phase: a new phase derived from the member is taken and its
\* date is stamped.
DatedMemberSelect(option) ==
    /\ member_option' = option
    /\ LET new_phase == CyclePhaseAfterUpdate(<<"p1">>, [p \in Plants |-> option],
                                              dated_option)
       IN /\ dated_option' = new_phase
          /\ phase_begin' = IF new_phase # dated_option
                            THEN [phase_begin EXCEPT ![new_phase] = half_day]
                            ELSE phase_begin
    /\ last' = "dated_member_select"
    /\ UNCHANGED <<phase_dauer, half_day, nonDatesVars>>

HalfDayPasses ==
    /\ half_day < MaxHalfDays
    /\ half_day' = half_day + 1
    /\ last' = "half_day"
    /\ UNCHANGED <<dated_option, member_option, phase_begin, phase_dauer, nonDatesVars>>

\* A new cycle with a new member: __init__ stamps the date of the initial
\* phase.
InitDates ==
    /\ half_day = 0
    /\ dated_option = DEFAULT_GROWTH_PHASE
    /\ member_option = DEFAULT_GROWTH_PHASE
    /\ phase_begin = [ph \in DatedPhases |->
                         IF ph = DEFAULT_GROWTH_PHASE THEN 0 ELSE None]
    /\ phase_dauer = [ph \in DatedPhases |-> None]

IdleDates == InitDates

NextDates ==
    \/ \E o \in DatedPhases : DatedSelectOption(o)
    \/ \E o \in DatedPhases : DatedMemberSelect(o)
    \/ HalfDayPasses

(***************************************************************************)
(* Total consumption section: PlantTotalWaterConsumption of a plant whose  *)
(* config entry is not new                                                 *)
(***************************************************************************)

\* Most readings the model lets the sensor collect between two restarts.
MaxTotalHistory == 4

\* PlantTotalWaterConsumption._state_changed_event: a reading that is a
\* number joins the history, and from the second reading on the value is the
\* volume of all falls in the history.
TotalMoistureEvent(state) ==
    /\ Len(total_history) < MaxTotalHistory
    /\ IF ~Known(state)
       THEN UNCHANGED <<total_history, total_value>>
       ELSE /\ total_history' = Append(total_history, <<0, state>>)
            /\ total_value' =
                  IF Len(total_history') >= 2
                  THEN VolumeDrop(TotalDrop(total_history'), pot_size, water_capacity)
                  ELSE total_value
    /\ last' = "total_event"
    /\ UNCHANGED nonTotalVars

\* __init__ and async_added_to_hass at a restart of the host: the history
\* starts empty, the value is float() of the last state.
TotalAddedToHass ==
    /\ total_history' = <<>>
    /\ total_value' = FloatOfState(ValueState(total_value))
    /\ last' = "total_added"
    /\ UNCHANGED nonTotalVars

InitTotal ==
    /\ total_history = <<>>
    /\ total_value = 0

IdleTotal == InitTotal

NextTotal ==
    \/ \E s \in MoistureReadings \cup {STATE_UNKNOWN, STATE_UNAVAILABLE} :
          TotalMoistureEvent(s)
    \/ TotalAddedToHass

(***************************************************************************)
(* Tracking section: mirrored meters (PlantCurrentStatus) and the state    *)
(* change subscriptions they hold on external sensors                      *)
(***************************************************************************)

TrackMeters == {"moisture", "ph"}
TrackSensors == {"sensor.old", "sensor.new"}

\* States an external sensor reports; the numbers are tenths.
TrackStates == {STATE_UNKNOWN, STATE_UNAVAILABLE, 30, 65}

\* The assignments to _default_state while a meter is constructed, in the
\* order they run: PlantCurrentPh.__init__ assigns 7.0 and then calls
\* super().__init__, and PlantCurrentStatus.__init__ assigns 0.
DefaultStateAssignments(m) ==
    (IF m = "ph" THEN <<70>> ELSE <<>>) \o <<0>>

\* _default_state of the constructed meter.
DefaultStateOf(m) == DefaultStateAssignments(m)[Len(DefaultStateAssignments(m))]

\* replace_sensor with a valid target and replacement, down to
\* PlantCurrentStatus.replace_external_sensor: the sensor is set and a
\* subscription on it is added; no subscription is ever cancelled.
TrackReplace(m, new_sensor) ==
    /\ track_external' = [track_external EXCEPT ![m] = new_sensor]
    /\ subscriptions' = [subscriptions EXCEPT ![m] =
                            IF new_sensor = "none" THEN @ ELSE @ \cup {new_sensor}]
    /\ track_event' = <<m, new_sensor, None>>
    /\ last' = "track_replace"
    /\ UNCHANGED <<track_value, nonTrackingVars>>

\* A sensor the meter holds a subscription on changes state:
\* _state_changed_event and state_changed.
TrackStateChanged(m, sensor, state) ==
    /\ sensor \in subscriptions[m]
    /\ track_value' = [track_value EXCEPT ![m] =
                          IF track_external[m] # "none" /\ Known(state) THEN state
                          ELSE DefaultStateOf(m)]
    /\ track_event' = <<m, sensor, state>>
    /\ last' = "track_event"
    /\ UNCHANGED <<track_external, subscriptions, nonTrackingVars>>

\* PlantCurrentStatus.async_update: the state of the external sensor is
\* polled; float() of a state that is no number raises ValueError.
TrackAsyncUpdate(m, state) ==
    /\ track_value' = [track_value EXCEPT ![m] =
                          IF track_external[m] # "none" /\ Known(state) THEN state
                          ELSE DefaultStateOf(m)]
    /\ track_event' = <<m, track_external[m], state>>
    /\ last' = "track_update"
    /\ UNCHANGED <<track_external, subscriptions, nonTrackingVars>>

\* Restart of the host: the subscriptions of the old process are gone;
\* async_added_to_hass sets the value to None and, when the last state names
\* an external sensor, subscribes to it through replace_external_sensor.
TrackAddedToHass ==
    /\ subscriptions' = [m \in TrackMeters |->
                            IF track_external[m] = "none" THEN {}
                            ELSE {track_external[m]}]
    /\ track_value' = [m \in TrackMeters |-> None]
    /\ track_event' = <<>>
    /\ last' = "track_added"
    /\ UNCHANGED <<track_external, nonTrackingVars>>

\* Meters attached at a restart, each with the old sensor or with none.
InitTracking ==
    /\ track_external \in [TrackMeters -> {"none", "sensor.old"}]
    /\ subscriptions = [m \in TrackMeters |->
                           IF track_external[m] = "none" THEN {}
                           ELSE {track_external[m]}]
    /\ track_value = [m \in TrackMeters |-> None]
    /\ track_event = <<>>

IdleTracking == InitTracking /\ track_external = [m \in TrackMeters |-> "none"]

NextTracking ==
    \/ \E m \in TrackMeters, s \in TrackSensors \cup {"none"} : TrackReplace(m, s)
    \/ \E m \in TrackMeters, s \in TrackSensors, st \in TrackStates :
          TrackStateChanged(m, s, st)
    \/ \E m \in TrackMeters, st \in TrackStates : TrackAsyncUpdate(m, st)
    \/ TrackAddedToHass

(***************************************************************************)
(* Rating section: the health rating number (PlantHealthNumber) of one     *)
(* device and its health_history attribute                                 *)
(***************************************************************************)

MaxRatingHistory == 3

\* Ratings a caller passes, in tenths of a star, and the dates of the calls.
RatingInputs == {0, 12, 25, 50}
RatingDates == {1, 2}

\* round(value / step) * step with the step 0.5, on tenths.
RoundToStep(v) == 5 * ((v \div 5) + (IF 2 * (v % 5) > 5 THEN 1 ELSE 0))

\* "⭐" * int(value) + ("½" if value % 1 else ""): the number of stars and
\* whether the half sign follows.
StarsOf(v) == <<v \div 10, v % 10 # 0>>

\* PlantHealthNumber.async_set_native_value on the device's own number: one
\* entry is appended to a copy of the history, the copy is stored, the value
\* is set and the state is written.
RatingSetNativeValue(value, date) ==
    /\ Len(health_history) < MaxRatingHistory
    /\ health_history' = Append(health_history,
                                <<date, RoundToStep(value), StarsOf(RoundToStep(value))>>)
    /\ health_value' = RoundToStep(value)
    /\ written_history' = health_history'
    /\ written_value' = health_value'
    /\ last' = "set_rating"
    /\ UNCHANGED <<rating_device, nonRatingVars>>

\* PlantHealthNumber._update_cycle_health with the aggregate of the members'
\* values: a cycle's value is set and the state is written; the history is
\* not touched.
RatingUpdateCycleHealth(value) ==
    /\ rating_device = "cycle"
    /\ health_value' = RoundToStep(value)
    /\ written_value' = health_value'
    /\ written_history' = health_history
    /\ last' = "update_cycle_health"
    /\ UNCHANGED <<health_history, rating_device, nonRatingVars>>

\* Restart of an existing device: __init__ starts the history empty, and
\* async_added_to_hass takes the value from async_get_last_number_data().
\* The stored number data of RestoreNumber holds the value, the limits, the
\* step and the unit; reading .attributes of it either raises, which ends
\* the handler, or yields the attributes of the last written state.
RatingAddedToHass(has_attributes) ==
    /\ health_value' = written_value
    /\ health_history' = IF has_attributes THEN written_history ELSE <<>>
    /\ last' = "rating_added"
    /\ UNCHANGED <<written_value, written_history, rating_device, nonRatingVars>>

\* A device set up as new: the value is HEALTH_DEFAULT, the history empty.
InitRating ==
    /\ rating_device \in {"plant", "cycle"}
    /\ health_history = <<>>
    /\ health_value = 50
    /\ written_history = <<>>
    /\ written_value = 50

IdleRating == InitRating /\ rating_device = "plant"

NextRating ==
    \/ \E v \in RatingInputs, d \in RatingDates : RatingSetNativeValue(v, d)
    \/ \E v \in RatingInputs : RatingUpdateCycleHealth(v)
    \/ \E b \in BOOLEAN : RatingAddedToHass(b)

(***************************************************************************)
(* Capacity section: the water capacity numbers (WaterCapacityNumber) of   *)
(* one cycle and of the plants under it                                    *)
(***************************************************************************)

CapacityPlants == {"p1", "p2"}

\* Water capacities in percent that a caller sets.
CapacityValues == {10, 45, 100}

\* The aggregation branch of _update_cycle_water_capacity for a method and
\* the members' capacities, with the closing round().
AggregateCapacities(method, capacities) ==
    IF method = AGGREGATION_MEAN
    THEN RoundDiv(SumSeq(capacities), Len(capacities))
    ELSE IF method = AGGREGATION_MIN THEN MinSeq(capacities)
    ELSE IF method = AGGREGATION_MAX THEN MaxSeq(capacities)
    ELSE LET sorted_values == Sorted(capacities)
             n == Len(sorted_values)
         IN IF n % 2 = 0
            THEN RoundDiv(sorted_values[n \div 2] + sorted_values[(n \div 2) + 1], 2)
            ELSE sorted_values[(n \div 2) + 1]

\* The capacities the loop over _member_plants collects.
MemberCapacities(values) ==
    [i \in 1..Len(capacity_members) |-> values[capacity_members[i]]]

\* WaterCapacityNumber._update_cycle_water_capacity: the cycle's value
\* afterwards.  The method is read from the device's pot_size_aggregation.
CycleCapacityAfterUpdate(values, current) ==
    IF capacity_members = <<>> THEN current
    ELSE AggregateCapacities(pot_size_aggregation, MemberCapacities(values))

\* async_set_native_value of a plant's number: the value is taken, and a
\* plant under the cycle makes the cycle's number recompute.
CapacitySetNativeValue(p, value) ==
    /\ member_capacity' = [member_capacity EXCEPT ![p] = value]
    /\ cycle_capacity' = IF InSeq(p, capacity_members)
                         THEN CycleCapacityAfterUpdate(member_capacity', cycle_capacity)
                         ELSE cycle_capacity
    /\ last' = "set_capacity"
    /\ UNCHANGED <<capacity_members, pot_size_aggregation,
                   water_capacity_aggregation, nonCapacityVars>>

\* async_set_native_value of the cycle's number: the value is taken and
\* pushed to every plant under the cycle, each of which makes the cycle
\* recompute.
CapacityCycleSetNativeValue(value) ==
    /\ member_capacity' = [p \in CapacityPlants |->
                              IF InSeq(p, capacity_members) THEN value
                              ELSE member_capacity[p]]
    /\ cycle_capacity' = CycleCapacityAfterUpdate(member_capacity', value)
    /\ last' = "set_cycle_capacity"
    /\ UNCHANGED <<capacity_members, pot_size_aggregation,
                   water_capacity_aggregation, nonCapacityVars>>

\* A cycle with its members and its two configured methods, every number at
\* DEFAULT_WATER_CAPACITY.
InitCapacity ==
    /\ capacity_members \in {<<>>, <<"p1">>, <<"p1", "p2">>}
    /\ pot_size_aggregation \in AGGREGATION_METHODS
    /\ water_capacity_aggregation \in AGGREGATION_METHODS
    /\ member_capacity = [p \in CapacityPlants |-> 50]
    /\ cycle_capacity = 50

IdleCapacity ==
    /\ InitCapacity
    /\ capacity_members = <<>>
    /\ pot_size_aggregation = AGGREGATION_MEAN
    /\ water_capacity_aggregation = AGGREGATION_MEAN

NextCapacity ==
    \/ \E p \in CapacityPlants, v \in CapacityValues : CapacitySetNativeValue(p, v)
    \/ \E v \in CapacityValues : CapacityCycleSetNativeValue(v)

(***************************************************************************)
(* Area section: the location text (PlantLocation) of one cycle, the       *)
(* device registry areas of the cycle and of its member plants             *)
(***************************************************************************)

MaxAreaJobs == 2

\* _member_plants of the cycle, and the rooms of the area registry.
AreaMembers == <<"p1", "p2">>
Areas == {"r1", "r2"}
NoArea == "none"

\* The areas, in the order of _member_plants, that _update_member_areas
\* collects: each loaded member's area once, members without area skipped.
RECURSIVE CollectAreas(_, _, _)
CollectAreas(members, loaded, areas) ==
    IF members = <<>> THEN <<>>
    ELSE LET p == Head(members)
             rest == CollectAreas(Tail(members), loaded, areas)
         IN IF p \in loaded /\ areas[p] # NoArea /\ ~InSeq(areas[p], rest)
            THEN <<areas[p]>> \o rest
            ELSE rest

\* _propagate_area_to_members: the registry areas afterwards.  A member
\* whose PlantDevice is not found in hass.data is passed over.
PropagateAreaToMembers(area_id, loaded, areas) ==
    [p \in DOMAIN areas |-> IF p \in loaded THEN area_id ELSE areas[p]]

\* The device_registry_updated events of the members whose area an update
\* changed, in the order of the updates.
RECURSIVE AreaEvents(_, _, _)
AreaEvents(members, before, after) ==
    IF members = <<>> THEN <<>>
    ELSE (IF before[Head(members)] # after[Head(members)]
          THEN << <<"event", Head(members)>> >> ELSE <<>>)
         \o AreaEvents(Tail(members), before, after)

\* The area of the cycle's device is changed in the device registry; the
\* registry fires device_registry_updated.
CycleAreaUpdated(area_id) ==
    /\ Len(area_jobs) < MaxAreaJobs
    /\ area_id # cycle_area
    /\ cycle_area' = area_id
    /\ area_jobs' = Append(area_jobs, <<"event", "cycle">>)
    /\ last' = "cycle_area_updated"
    /\ UNCHANGED <<member_area, location_area, area_loaded, area_ran, nonAreaVars>>

\* The area of a member's device is changed in the device registry.
MemberAreaUpdated(p, area_id) ==
    /\ Len(area_jobs) < MaxAreaJobs
    /\ area_id # member_area[p]
    /\ member_area' = [member_area EXCEPT ![p] = area_id]
    /\ area_jobs' = Append(area_jobs, <<"event", p>>)
    /\ last' = "member_area_updated"
    /\ UNCHANGED <<cycle_area, location_area, area_loaded, area_ran, nonAreaVars>>

\* async_unload_entry and async_setup_entry of a member's config entry: its
\* PlantDevice leaves and enters hass.data; the cycle keeps listing it.
MemberEntryUnload(p) ==
    /\ p \in area_loaded
    /\ area_loaded' = area_loaded \ {p}
    /\ last' = "member_unload"
    /\ UNCHANGED <<cycle_area, member_area, location_area, area_jobs, area_ran,
                   nonAreaVars>>

MemberEntrySetup(p) ==
    /\ p \notin area_loaded
    /\ area_loaded' = area_loaded \cup {p}
    /\ last' = "member_setup"
    /\ UNCHANGED <<cycle_area, member_area, location_area, area_jobs, area_ran,
                   nonAreaVars>>

\* _handle_area_change of the cycle's location text for an event of the
\* cycle's own device: the location takes the area, and with an area set a
\* task propagating it to the members is created.
HandleCycleAreaChange ==
    /\ area_jobs # <<>> /\ Head(area_jobs) = <<"event", "cycle">>
    /\ location_area' = cycle_area
    /\ area_jobs' = Tail(area_jobs) \o
                       (IF cycle_area # NoArea
                        THEN << <<"propagate", cycle_area>> >> ELSE <<>>)
    /\ area_ran' = Head(area_jobs)
    /\ last' = "cycle_area_event"
    /\ UNCHANGED <<cycle_area, member_area, area_loaded, nonAreaVars>>

\* _handle_area_change of the cycle's location text for an event of a
\* member's device: a task recomputing the members' areas is created.
HandleMemberAreaChange(p) ==
    /\ area_jobs # <<>> /\ Head(area_jobs) = <<"event", p>>
    /\ area_jobs' = Tail(area_jobs) \o
                       (IF p \in area_loaded
                        THEN << <<"members", "cycle">> >> ELSE <<>>)
    /\ area_ran' = Head(area_jobs)
    /\ last' = "member_area_event"
    /\ UNCHANGED <<cycle_area, member_area, location_area, area_loaded, nonAreaVars>>

\* The task of _propagate_area_to_members runs.
RunPropagateArea ==
    /\ area_jobs # <<>> /\ Head(area_jobs)[1] = "propagate"
    /\ member_area' = PropagateAreaToMembers(Head(area_jobs)[2], area_loaded, member_area)
    /\ area_jobs' = Tail(area_jobs) \o AreaEvents(AreaMembers, member_area, member_area')
    /\ area_ran' = Head(area_jobs)
    /\ last' = "propagate_area"
    /\ UNCHANGED <<cycle_area, location_area, area_loaded, nonAreaVars>>

\* The task of _update_member_areas runs: with all members in one area that
\* is not the location's area, _update_device_area moves the cycle there.
RunUpdateMemberAreas ==
    /\ area_jobs # <<>> /\ Head(area_jobs)[1] = "members"
    /\ LET areas == CollectAreas(AreaMembers, area_loaded, member_area)
           moved == Len(areas) = 1 /\ areas[1] # location_area
       IN /\ cycle_area' = IF moved THEN areas[1] ELSE cycle_area
          /\ area_jobs' = Tail(area_jobs) \o
                             (IF moved /\ areas[1] # cycle_area
                              THEN << <<"event", "cycle">> >> ELSE <<>>)
    /\ area_ran' = Head(area_jobs)
    /\ last' = "update_member_areas"
    /\ UNCHANGED <<member_area, location_area, area_loaded, nonAreaVars>>

\* A cycle and its members in rooms or in none, every entry loaded, the
\* location of the cycle showing the cycle's area, no task pending.
InitArea ==
    /\ cycle_area \in Areas \cup {NoArea}
    /\ member_area \in [{"p1", "p2"} -> Areas \cup {NoArea}]
    /\ location_area = cycle_area
    /\ area_loaded = {"p1", "p2"}
    /\ area_jobs = <<>>
    /\ area_ran = <<>>

IdleArea ==
    /\ InitArea
    /\ cycle_area = NoArea
    /\ member_area = [p \in {"p1", "p2"} |-> NoArea]

NextArea ==
    \/ \E a \in Areas \cup {NoArea} : CycleAreaUpdated(a)
    \/ \E p \in {"p1", "p2"}, a \in Areas \cup {NoArea} : MemberAreaUpdated(p, a)
    \/ \E p \in {"p1", "p2"} : MemberEntryUnload(p)
    \/ \E p \in {"p1", "p2"} : MemberEntrySetup(p)
    \/ HandleCycleAreaChange
    \/ \E p \in {"p1", "p2"} : HandleMemberAreaChange(p)
    \/ RunPropagateArea
    \/ RunUpdateMemberAreas

(***************************************************************************)
(* Membership section: services.py move_to_cycle over the entities of the  *)
(* plant domain, plants and cycles alike                                   *)
(***************************************************************************)

\* The entities of the domain, each with a registry device and a loaded
\* PlantDevice, and the device_type of each.
DomainEntities == {"p1", "c1", "c2"}
DeviceTypeOf(e) == IF e = "p1" THEN DEVICE_TYPE_PLANT ELSE DEVICE_TYPE_CYCLE

\* move_to_cycle for one entity passed as plant_entity and an entity or none
\* passed as cycle_entity.  The service has no schema: either argument is
\* looked up by its entity id only, and just the cycle the entity leaves is
\* required to be of the cycle type.
MoveEntityToCycle(plant_entity, cycle_entity) ==
    /\ LET old == device_via[plant_entity]
           removes == /\ old # "none"
                      /\ DeviceTypeOf(old) = DEVICE_TYPE_CYCLE
                      /\ InSeq(plant_entity, device_members[old])
           removed == IF removes
                      THEN [device_members EXCEPT ![old] = RemoveFirst(plant_entity, @)]
                      ELSE device_members
           adds == cycle_entity # "none" /\ ~InSeq(plant_entity, removed[cycle_entity])
       IN /\ device_members' = IF adds
                               THEN [removed EXCEPT ![cycle_entity] = Append(@, plant_entity)]
                               ELSE removed
          /\ device_via' = [device_via EXCEPT ![plant_entity] = cycle_entity]
    /\ last' = "move_entity"
    /\ UNCHANGED nonMembershipVars

\* No entity is under a cycle.
InitMembership ==
    /\ device_members = [e \in DomainEntities |-> <<>>]
    /\ device_via = [e \in DomainEntities |-> "none"]

IdleMembership == InitMembership

NextMembership ==
    \E e \in DomainEntities, c \in DomainEntities \cup {"none"} : MoveEntityToCycle(e, c)

\* The sections after the websocket section at rest.
IdleFourth == IdleDates /\ IdleTotal /\ IdleTracking /\ IdleRating /\ IdleCapacity /\ IdleArea /\ IdleMembership

\* Everything from the replace_sensor section on at rest.
IdleThird == IdleReplace /\ IdleWebsocket /\ IdleFourth

\* Everything before the treatment section at rest, the flag left open.
IdleFirst ==
    /\ IdleHealth /\ IdleMedian /\ IdlePhase /\ IdleNumbers
    /\ IdleConsumption /\ IdlePpfd

\* Everything from the treatment section on at rest.
IdleRest == IdleTreatment /\ IdleEntries /\ IdleRestore /\ IdleMove /\ IdleThird

(***************************************************************************)
(* Specifications                                                          *)
(***************************************************************************)

SpecHealthInit ==
    /\ InitHealth /\ IdleMedian /\ IdlePhase /\ IdleDuration
    /\ IdleConsumption /\ IdlePpfd /\ IdleRest /\ last = "init"

SpecHealth == SpecHealthInit /\ [][NextHealth]_vars

SpecMedianInit ==
    /\ InitMedian /\ IdleHealth /\ IdlePhase /\ IdleDuration
    /\ IdleConsumption /\ IdlePpfd /\ IdleRest /\ last = "init"

SpecMedian == SpecMedianInit /\ [][NextMedian]_vars

SpecPhaseInit ==
    /\ InitPhase /\ IdleHealth /\ IdleMedian /\ IdleDuration
    /\ IdleConsumption /\ IdlePpfd /\ IdleRest /\ last = "init"

SpecPhase == SpecPhaseInit /\ [][NextPhase]_vars

SpecDurationInit ==
    /\ InitDuration /\ IdleHealth /\ IdleMedian /\ IdlePhase
    /\ IdleConsumption /\ IdlePpfd /\ IdleRest /\ last = "init"

SpecDuration == SpecDurationInit /\ [][NextDuration]_vars

SpecConsumptionInit ==
    /\ InitConsumption /\ IdleNumbers /\ IdleHealth /\ IdleMedian /\ IdlePhase
    /\ IdlePpfd /\ IdleRest /\ last = "init"

SpecConsumption == SpecConsumptionInit /\ [][NextConsumption]_vars

SpecPpfdInit ==
    /\ InitPpfd /\ IdleHealth /\ IdleMedian /\ IdlePhase /\ IdleDuration
    /\ IdleConsumption /\ IdleRest /\ last = "init"

SpecPpfd == SpecPpfdInit /\ [][NextPpfd]_vars

SpecTreatmentInit ==
    /\ InitTreatment /\ is_new \in BOOLEAN /\ IdleFirst /\ IdleEntries /\ IdleRestore
    /\ IdleMove
    /\ IdleThird /\ last = "init"

SpecTreatment == SpecTreatmentInit /\ [][NextTreatment]_vars

\* The event loop runs a reset_treatment task once its sleep is over.
SpecTreatmentLive ==
    SpecTreatmentInit /\ [][NextTreatment]_vars /\ WF_vars(ResetTreatment)

SpecEntriesInit ==
    /\ InitEntries /\ IdleFirst /\ is_new = FALSE /\ IdleTreatment /\ IdleRestore
    /\ IdleMove
    /\ IdleThird /\ last = "init"

SpecEntries == SpecEntriesInit /\ [][NextEntries]_vars

SpecRestoreInit ==
    /\ InitRestore /\ is_new \in BOOLEAN /\ IdleFirst /\ IdleTreatment /\ IdleEntries
    /\ IdleMove
    /\ IdleThird /\ last = "init"

SpecRestore == SpecRestoreInit /\ [][NextRestore]_vars

SpecMoveInit ==
    /\ InitMove /\ IdleFirst /\ is_new = FALSE /\ IdleTreatment /\ IdleEntries
    /\ IdleRestore /\ IdleThird /\ last = "init"

SpecMove == SpecMoveInit /\ [][NextMove]_vars

\* The sections from the treatment section to the two cycles at rest.
IdleSecond == is_new = FALSE /\ IdleTreatment /\ IdleEntries /\ IdleRestore /\ IdleMove

SpecReplaceInit ==
    /\ InitReplace /\ IdleFirst /\ IdleSecond /\ IdleWebsocket /\ IdleFourth
    /\ last = "init"

SpecReplace == SpecReplaceInit /\ [][NextReplace]_vars

SpecWebsocketInit ==
    /\ InitWebsocket /\ IdleFirst /\ IdleSecond /\ IdleReplace /\ IdleFourth
    /\ last = "init"

SpecWebsocket == SpecWebsocketInit /\ [][NextWebsocket]_vars

\* The sections up to the websocket section at rest.
IdleBeforeFourth == IdleFirst /\ IdleSecond /\ IdleReplace /\ IdleWebsocket

SpecDatesInit ==
    /\ InitDates /\ IdleBeforeFourth
    /\ IdleTotal
    /\ IdleTracking
    /\ IdleRating
    /\ IdleCapacity
    /\ IdleArea
    /\ IdleMembership
    /\ last = "init"

SpecDates == SpecDatesInit /\ [][NextDates]_vars

SpecTotalInit ==
    /\ InitTotal /\ IdleBeforeFourth
    /\ IdleDates
    /\ IdleTracking
    /\ IdleRating
    /\ IdleCapacity
    /\ IdleArea
    /\ IdleMembership
    /\ last = "init"

SpecTotal == SpecTotalInit /\ [][NextTotal]_vars

SpecTrackingInit ==
    /\ InitTracking /\ IdleBeforeFourth
    /\ IdleDates
    /\ IdleTotal
    /\ IdleRating
    /\ IdleCapacity
    /\ IdleArea
    /\ IdleMembership
    /\ last = "init"

SpecTracking == SpecTrackingInit /\ [][NextTracking]_vars

SpecRatingInit ==
    /\ InitRating /\ IdleBeforeFourth
    /\ IdleDates
    /\ IdleTotal
    /\ IdleTracking
    /\ IdleCapacity
    /\ IdleArea
    /\ IdleMembership
    /\ last = "init"

SpecRating == SpecRatingInit /\ [][NextRating]_vars

SpecCapacityInit ==
    /\ InitCapacity /\ IdleBeforeFourth
    /\ IdleDates
    /\ IdleTotal
    /\ IdleTracking
    /\ IdleRating
    /\ IdleArea
    /\ IdleMembership
    /\ last = "init"

SpecCapacity == SpecCapacityInit /\ [][NextCapacity]_vars

SpecAreaInit ==
    /\ InitArea /\ IdleBeforeFourth
    /\ IdleDates
    /\ IdleTotal
    /\ IdleTracking
    /\ IdleRating
    /\ IdleCapacity
    /\ IdleMembership
    /\ last = "init"

SpecArea == SpecAreaInit /\ [][NextArea]_vars

SpecMembershipInit ==
    /\ InitMembership /\ IdleBeforeFourth
    /\ IdleDates
    /\ IdleTotal
    /\ IdleTracking
    /\ IdleRating
    /\ IdleCapacity
    /\ IdleArea
    /\ last = "init"

SpecMembership == SpecMembershipInit /\ [][NextMembership]_vars

(***************************************************************************)
(* Properties                                                              *)
(***************************************************************************)

\* ---- properties of the health section ----

Moisture == meter["moisture"]

\* C1 (as claimed): after update() on a plant with a known moisture reading M,
\* moisture_status is Low iff M < MIN, High iff M > MAX, and OK otherwise.
C1_AsClaimed ==
    (last = "update" /\ Known(Moisture)) =>
        /\ (status["moisture"] = STATE_LOW <=> Moisture < min_thr["moisture"])
        /\ (status["moisture"] = STATE_HIGH <=> Moisture > max_thr["moisture"])
        /\ (status["moisture"] = STATE_OK <=>
               ~(Moisture < min_thr["moisture"]) /\ ~(Moisture > max_thr["moisture"]))

\* C1 (amended): after update() on a plant with a known moisture reading M,
\* moisture_status is Low iff M < MIN, High iff M > MAX and not M < MIN
\* (the Low test comes first), and OK otherwise.
C1_StatusMatchesThresholds ==
    (last = "update" /\ Known(Moisture)) =>
        /\ (status["moisture"] = STATE_LOW <=> Moisture < min_thr["moisture"])
        /\ (status["moisture"] = STATE_HIGH <=>
               Moisture > max_thr["moisture"] /\ ~(Moisture < min_thr["moisture"]))
        /\ (status["moisture"] = STATE_OK <=>
               ~(Moisture < min_thr["moisture"]) /\ ~(Moisture > max_thr["moisture"]))

\* update() ran on a reading above MAX with properly ordered thresholds.
C1_Witness ==
    /\ last = "update"
    /\ Known(Moisture)
    /\ min_thr["moisture"] <= max_thr["moisture"]
    /\ Moisture > max_thr["moisture"]
    /\ status["moisture"] = STATE_HIGH

\* C2: after update() the device state is Problem iff some reading has its
\* alarm trigger enabled and a status that is not OK (Low or High).
C2_ProblemIffTriggeredNotOk ==
    last = "update" =>
        (plant_state = STATE_PROBLEM <=>
            \E r \in Readings : trigger[r] /\ status[r] \in {STATE_LOW, STATE_HIGH})

\* update() ran with one reading out of range but its trigger disabled, and
\* another reading out of range with its trigger enabled.
C2_Witness ==
    /\ last = "update"
    /\ plant_state = STATE_PROBLEM
    /\ \E r \in Readings : ~trigger[r] /\ status[r] \in {STATE_LOW, STATE_HIGH}

\* C3 (as claimed): if no mirrored reading has an external sensor supplying a
\* usable value, the device state after update() is Unknown.
C3_AsClaimed ==
    (last = "update" /\ \A r \in Mirrored : ext[r] \notin Numbers) =>
        plant_state = DEVICE_UNKNOWN


\* ---- properties of the aggregate section ----

AfterMedianUpdate == last \in {"add_member", "remove_member", "update_median"}

KnownMemberValues == MemberValues(member_plants, sensor_state)

\* The least and the greatest of a sequence, and its median, doubled so that
\* it stays an integer: the middle value twice, or the sum of the two middle
\* values.
LeastOf(values) ==
    CHOOSE x \in {values[i] : i \in 1..Len(values)} :
        \A i \in 1..Len(values) : x <= values[i]

GreatestOf(values) ==
    CHOOSE x \in {values[i] : i \in 1..Len(values)} :
        \A i \in 1..Len(values) : x >= values[i]

Rank(x, values) == Cardinality({i \in 1..Len(values) : values[i] < x})

AtMost(x, values) == Cardinality({i \in 1..Len(values) : values[i] <= x})

\* The k-th smallest value.
Kth(k, values) ==
    CHOOSE x \in {values[i] : i \in 1..Len(values)} :
        Rank(x, values) < k /\ k <= AtMost(x, values)

TwiceMedianOf(values) ==
    LET n == Len(values)
    IN IF n % 2 = 1 THEN 2 * Kth((n + 1) \div 2, values)
       ELSE Kth(n \div 2, values) + Kth(n \div 2 + 1, values)

\* Thousandths of the cached value times den, against the exact aggregate
\* num/den of the configured method.
ExactNum(method, values) ==
    IF method = AGGREGATION_MEAN THEN SumSeq(values)
    ELSE IF method = AGGREGATION_MIN THEN LeastOf(values)
    ELSE IF method = AGGREGATION_MAX THEN GreatestOf(values)
    ELSE TwiceMedianOf(values)

ExactDen(method, values) ==
    IF method = AGGREGATION_MEAN THEN Len(values)
    ELSE IF method = AGGREGATION_MEDIAN THEN 2
    ELSE 1

\* The step between two values the cache can hold for a sensor type.
StepOf(t) ==
    IF t \in ThreeDecimalTypes THEN 1
    ELSE IF t \in OneDecimalTypes THEN Unit \div 10
    ELSE Unit

Abs(x) == IF x < 0 THEN -x ELSE x

C4_Case ==
    /\ AfterMedianUpdate
    /\ KnownMemberValues # <<>>
    /\ aggregation \in AGGREGATION_METHODS

\* C4 as stated: after the aggregate of a cycle is recomputed over the known
\* values of its members, the cached value is exactly the mean, minimum,
\* maximum or median of those values.
C4_AsClaimed ==
    C4_Case =>
        median_sensors * ExactDen(aggregation, KnownMemberValues)
            = Unit * ExactNum(aggregation, KnownMemberValues)

\* C4: after the aggregate of a cycle is recomputed over the known values of
\* its members, the cached value is the mean, minimum, maximum or median of
\* those values (middle value of an odd count, average of the two middle
\* values of an even count) rounded to the precision of the sensor type: it
\* is a multiple of the type's step and lies within half a step of the
\* exact aggregate.
C4_AggregateRoundedToPrecision ==
    C4_Case =>
        /\ median_sensors # None
        /\ median_sensors % StepOf(sensor_type) = 0
        /\ 2 * Abs(median_sensors * ExactDen(aggregation, KnownMemberValues)
                     - Unit * ExactNum(aggregation, KnownMemberValues))
               <= StepOf(sensor_type) * ExactDen(aggregation, KnownMemberValues)

\* The mean of three known member temperatures that is not a multiple of a
\* tenth has been computed by a poll of the cycle sensor.
C4_Witness ==
    /\ C4_Case
    /\ Len(KnownMemberValues) = 3
    /\ sensor_type = "temperature"
    /\ aggregation = AGGREGATION_MEAN
    /\ SumSeq(KnownMemberValues) % 3 # 0
    /\ last = "update_median"

C5_Case ==
    /\ AfterMedianUpdate
    /\ KnownMemberValues # <<>>
    /\ sensor_type \in ExtendedTypes
    /\ aggregation = AGGREGATION_ORIGINAL

\* C5 as stated: for a sensor type configured with the original method, the
\* cached value after a recomputation is the first member's known value.
C5_AsClaimed ==
    C5_Case => median_sensors = Unit * KnownMemberValues[1]

\* C15: when add_member_plant or remove_member_plant has returned, the cached
\* aggregate is the aggregate of the known values of the current members, and
\* holds no value when the current members supply none.
C15_AsClaimed ==
    last \in {"add_member", "remove_member"} =>
        median_sensors =
            IF KnownMemberValues = <<>> THEN None
            ELSE Aggregate(sensor_type, aggregation, KnownMemberValues, None)

\* ---- properties of the growth phase section ----

\* The phases of the cycle's members that are not Removed.
CountedPhases ==
    {current_option[member_plants[i]] : i \in 1..Len(member_plants)}
        \ {GROWTH_PHASE_REMOVED}

\* C6: a recomputation of the cycle's growth phase from its members leaves
\* the phase unchanged when no member is outside Removed, and otherwise makes
\* it the phase of a member outside Removed that is the least advanced
\* (method min) or the most advanced (method max) of those, by phase_order.
C6_CyclePhaseLeastOrMostAdvanced ==
    [][last' = "update_cycle_phase" =>
        IF CountedPhases = {}
        THEN cycle_option' = cycle_option
        ELSE /\ cycle_option' \in CountedPhases
             /\ \A ph \in CountedPhases :
                    IF phase_aggregation = "min"
                    THEN phase_order[cycle_option'] <= phase_order[ph]
                    ELSE phase_order[cycle_option'] >= phase_order[ph]]_vars

\* A cycle with a Removed member and two members in different other phases
\* has been recomputed with method min and shows the earlier of the two.
C6_Witness ==
    /\ last = "update_cycle_phase"
    /\ phase_aggregation = "min"
    /\ Len(member_plants) = 3
    /\ \E i \in 1..3 : current_option[member_plants[i]] = GROWTH_PHASE_REMOVED
    /\ CountedPhases = {GROWTH_PHASE_GROWING, GROWTH_PHASE_FLOWERING}
    /\ cycle_option = GROWTH_PHASE_GROWING

C27_AsClaimed ==
    [][\A o \in SelectedPhases :
          (CycleSelectOption(o) /\ member_plants # <<>>) => cycle_option' = o]_vars

\* ---- properties of the flowering duration section ----

\* A whole number of days was passed to the latest set of a duration.
WholeDays == call # <<>> /\ call[2] % 2 = 0

\* C7: when the flowering duration of a plant was set to a whole number of
\* days v and the number entity is then attached again under a config entry
\* that is not new, the restored value is v.
C7_RestoredAfterRestart ==
    (last = "restart" /\ ~is_new /\ WholeDays /\ call[1] \in Plants)
        => flowering_duration[call[1]] = call[2] \div 2

\* A plant set to 45 days, two digits in its state, has been restored as 45.
C7_Witness ==
    /\ last = "restart"
    /\ ~is_new
    /\ call = <<"p1", 90>>
    /\ flowering_duration["p1"] = 45

RECURSIVE DropsUpTo(_, _)
DropsUpTo(h, i) ==
    IF i < 2 THEN 0
    ELSE DropsUpTo(h, i - 1)
         + (IF h[i][2] < h[i - 1][2] THEN h[i - 1][2] - h[i][2] ELSE 0)

\* The sensor value is (drops / 100) * pot size * (water capacity / 100)
\* rounded to two decimals: within half a hundredth of it.  With the value in
\* hundredths of a litre and the pot size in tenths, the exact volume is
\* drops * pot_size * water_capacity / 1000 hundredths.
ConsumptionIsVolumeOf(drops) ==
    2 * Abs(1000 * moisture_consumption - drops * pot_size * water_capacity) <= 1000

\* C9 as stated: whenever a moisture reading has been processed, the current
\* water consumption is the volume of the drops among the readings the
\* moisture sensor reported within the 24-hour window.
C9_AsClaimed ==
    last = "moisture_event" =>
        ConsumptionIsVolumeOf(DropsUpTo(moisture_log, Len(moisture_log)))

\* C9: whenever a moisture reading has been processed and the sensor then
\* holds at least two readings, received since it was attached and no older
\* than 24 hours, the current water consumption is (sum of the drops between
\* consecutive held readings / 100) * pot size * (water capacity / 100),
\* rounded to two decimals.
C9_VolumeWhenTwoReadings ==
    (last = "moisture_event" /\ Len(history) >= 2) =>
        /\ ConsumptionIsVolumeOf(DropsUpTo(history, Len(history)))
        /\ \A i \in 1..Len(history) : history[i][1] >= now - WindowTicks

\* Pot size 2.0 l, water capacity 50 %, moisture fallen from 60 to 50: 0.10 l.
C9_Witness ==
    /\ last = "moisture_event"
    /\ Len(history) = 2
    /\ history[1][2] = 60
    /\ history[2][2] = 50
    /\ pot_size = 20
    /\ water_capacity = 50
    /\ moisture_consumption = 10

\* ---- properties of the PPFD section ----

AfterPpfdRead == ppfd_added /\ last \in {"ppfd_update", "ppfd_state_changed"}

\* C10: once the PPFD sensor has read the illuminance sensor, a numeric
\* illuminance gives PPFD = illuminance * 0.0185 / 1,000,000 (held as the
\* numerator over 10^10, so that 10,000 lux is 1,850,000), and an unknown or
\* unavailable illuminance gives no PPFD value, which is not the value zero.
C10_PpfdFromLux ==
    AfterPpfdRead =>
        /\ illuminance_state \in LuxReadings =>
              /\ ppfd_value # None
              /\ 2 * ppfd_value = 370 * illuminance_state
              /\ (illuminance_state = 10000 => ppfd_value = 1850000)
        /\ illuminance_state \in {STATE_UNKNOWN, STATE_UNAVAILABLE} =>
              /\ ppfd_value = None
              /\ ppfd_value # 0

\* The PPFD sensor has read an unknown illuminance and holds no value.
C10_Witness ==
    /\ AfterPpfdRead
    /\ illuminance_state = STATE_UNKNOWN
    /\ ppfd_value = None

\* ---- properties of the treatment section ----

\* The names in a list.
NamesIn(list) == {list[i] : i \in 1..Len(list)}

\* C11: an add of a custom treatment whose name is among the options (built
\* in or custom) returns failure and leaves the options list and the custom
\* treatment list as they were.
C11_ExistingNameRejected ==
    [][(last' = "add_treatment"
            /\ treatment_result'[1] \in NamesIn(treatment_options) \ {""})
         => /\ treatment_result'[2] = FALSE
            /\ treatment_options' = treatment_options
            /\ custom_treatments' = custom_treatments]_vars

\* An add of a name that is already a custom treatment has been refused.
C11_Witness ==
    /\ last = "add_treatment"
    /\ treatment_result = <<"defoliation", FALSE>>
    /\ "defoliation" \in NamesIn(custom_treatments)

\* C12: an add of a name that is not among the options is accepted; the
\* options list is then sorted without duplicates and holds the empty option,
\* the built-in treatments and the custom treatments, the new name among
\* them; and a restart under an entry that is not new leaves the custom
\* treatments and the options list as they were before it.
C12_NewNameAcceptedAndRestored ==
    [][/\ (last' = "add_treatment"
             /\ treatment_result'[1] \notin NamesIn(treatment_options) \cup {""})
          => /\ treatment_result'[2] = TRUE
             /\ treatment_result'[1] \in NamesIn(treatment_options')
             /\ \A i \in 1..(Len(treatment_options') - 1) :
                    RankOf(treatment_options'[i]) < RankOf(treatment_options'[i + 1])
             /\ NamesIn(treatment_options') =
                    {""} \cup NamesIn(TREATMENT_OPTIONS) \cup NamesIn(custom_treatments')
       /\ (last' = "treatment_added" /\ ~is_new)
          => /\ custom_treatments' = custom_treatments
             /\ treatment_options' = treatment_options]_vars

\* Two custom treatments, added out of order, are among the options after a
\* restart under an entry that is not new.
C12_Witness ==
    /\ last = "treatment_added"
    /\ ~is_new
    /\ custom_treatments = <<"zinc", "defoliation">>
    /\ {"zinc", "defoliation"} \subseteq NamesIn(treatment_options)

\* C13 as stated: whenever a treatment other than the empty option is the
\* current option, the current option becomes the empty option again.
C13_AsClaimed == (treatment_option # "") ~> (treatment_option = "")

\* C23: the add_custom_treatment service, called with the plant's entity id
\* and a name that is not among the options, puts the name among the options
\* of the plant's treatment select.
C23_AsClaimed ==
    [][\A n \in TreatmentNames \ {""}, c \in TREATMENT_COLORS :
          (AddCustomTreatmentService("plant.p1", n, c)
             /\ ~InSeq(n, treatment_options))
          => InSeq(n, treatment_options')]_vars

\* C28: a reset timer that is pending when a later treatment is selected does
\* not clear that later selection. Every reset_treatment task sleeps the same
\* two seconds, so the tasks wake in the order they were started, and a
\* selection that is not empty always has its own task as the newest pending
\* one: the task that clears it is its own exactly when no other is pending.
C28_AsClaimed ==
    [][(last' = "reset_treatment" /\ treatment_option # "") => reset_tasks = 1]_vars

\* C40: a treatment that is still selected when the select comes back from a
\* restart reverts to the empty option without any caller acting.
C40_AsClaimed ==
    (last = "treatment_added" /\ treatment_option # "") ~> (treatment_option = "")

\* ---- properties of the config entry section ----

\* C14: the setup flow started while no configuration entry exists creates
\* exactly one; started while one exists it creates nothing and goes on to the
\* choice of the device type; there is never more than one configuration entry.
C14_ConfigEntrySingleton ==
    /\ [](Cardinality({s \in Slots : config_entries[s].kind = DEVICE_TYPE_CONFIG}) <= 1)
    /\ [][last' = "step_user" =>
            IF {s \in Slots : config_entries[s].kind = DEVICE_TYPE_CONFIG} = {}
            THEN /\ Cardinality({s \in Slots :
                        config_entries'[s].kind = DEVICE_TYPE_CONFIG}) = 1
                 /\ \A s \in Slots :
                        config_entries'[s] # config_entries[s]
                            => config_entries'[s].kind = DEVICE_TYPE_CONFIG
            ELSE /\ config_entries' = config_entries
                 /\ entry_result'[2] \in {"form", "step_plant", "step_cycle"}]_vars

\* The flow was started a second time and went on to the plant step.
C14_Witness ==
    /\ last = "step_user"
    /\ entry_result = <<0, "step_plant">>
    /\ Cardinality({s \in Slots : config_entries[s].kind = DEVICE_TYPE_CONFIG}) = 1

\* Python's order of strings, on strings of digits.
RECURSIVE StrLess(_, _)
StrLess(a, b) ==
    IF a = <<>> THEN b # <<>>
    ELSE IF b = <<>> THEN FALSE
    ELSE IF Head(a) # Head(b) THEN Head(a) < Head(b)
    ELSE StrLess(Tail(a), Tail(b))

\* C17: every id handed out for a device type is greater than the one handed
\* out before it for that type, restarts included, and an entry that has an id
\* keeps it through every later step.
C17_AsClaimed ==
    [][/\ last' = "allocate_id"
            => StrLess(last_id[config_entries[entry_result'[1]].kind],
                       last_id'[config_entries[entry_result'[1]].kind])
       /\ \A s \in Slots :
              config_entries[s].id # <<>> /\ config_entries'[s].kind # "none"
                  => config_entries'[s].id = config_entries[s].id]_vars

\* C29: no two devices of the same type hold the same counter-based id, also
\* when their setups interleave between the load and the save of the counter.
C29_AsClaimed ==
    \A s1, s2 \in Slots :
        (/\ s1 # s2
         /\ config_entries[s1].kind \in DeviceTypes
         /\ config_entries[s1].kind = config_entries[s2].kind
         /\ config_entries[s1].id # <<>>)
        => config_entries[s1].id # config_entries[s2].id

\* C18: when the entry that is unloaded was the last loaded one, none of the
\* services registered at setup is registered any more.
C18_AsClaimed ==
    [][(/\ last' \in {"unload_entry", "remove_entry", "remove_device"}
        /\ \E s \in Slots : config_entries[s].state = "loaded"
        /\ \A s \in Slots : config_entries'[s].state # "loaded")
           => services' \cap ServicesRegistered = {}]_vars

\* C19: async_remove_config_entry_device for the configuration entry returns
\* False and removes nothing while a plant or cycle entry exists.
C19_ConfigRemovalRefused ==
    [][(/\ last' = "remove_device"
        /\ config_entries[entry_result'[1]].kind = DEVICE_TYPE_CONFIG
        /\ \E s \in Slots : config_entries[s].kind \in DeviceTypes)
           => /\ entry_result'[2] = "false"
              /\ config_entries' = config_entries
              /\ domain_data' = domain_data
              /\ services' = services]_vars

\* The removal of the configuration entry's device was refused.
C19_Witness ==
    /\ last = "remove_device"
    /\ entry_result[2] = "false"
    /\ config_entries[entry_result[1]].kind = DEVICE_TYPE_CONFIG
    /\ \E s \in Slots : config_entries[s].kind \in DeviceTypes

\* ---- properties of the restored sensor section ----

C20_AsClaimed ==
    [][(/\ last' = "move_to_cycle"
        /\ move_call'[3] = "moved"
        /\ plant_via[move_call'[1]] \notin {"none", move_call'[2]})
           => /\ ~InSeq(move_call'[1], cycle_members'[plant_via[move_call'[1]]])
              /\ plant_via'[move_call'[1]] = move_call'[2]
              /\ move_call'[2] # "none"
                    => InSeq(move_call'[1], cycle_members'[move_call'[2]])]_vars

\* C26: whenever the cycles are set up, a plant is in a cycle's member list
\* exactly if its device hangs under that cycle, whatever moves, unloads and
\* restarts came before; so no plant is in the lists of two cycles.
C26_AsClaimed ==
    (\A c \in Cycles : cycle_state[c] = "loaded")
        => \A c \in Cycles, p \in MovePlants :
               InSeq(p, cycle_members[c]) <=> plant_via[p] = c

\* ---- properties of the replace_sensor section ----

\* C21: a replace_sensor call whose target is not one of the integration's
\* meters, or whose replacement is neither empty nor an entity of the sensor
\* domain, leaves the external sensor of every meter as it was.
C21_InvalidCallChangesNothing ==
    [][(/\ last' = "replace_sensor"
        /\ \/ replace_call'[1] \notin Meters
           \/ replace_call'[2] # <<>> /\ replace_call'[2][1] # "sensor")
           => external_sensor' = external_sensor]_vars

\* A call that named a switch as the replacement for a meter that tracks a
\* sensor has been refused.
C21_Witness ==
    /\ last = "replace_sensor"
    /\ replace_call = <<<<"sensor", "plant_moisture">>, <<"switch", "pump">>,
                        "refused_sensor">>
    /\ external_sensor[<<"sensor", "plant_moisture">>] = <<"sensor", "soil">>

\* ---- properties of the websocket section ----

\* C24: every get_info or upload_image request that cannot be served is
\* answered with an error code; the handler never raises.
C24_AsClaimed ==
    [][last' \in {"get_info", "upload_image"} => ws_response'[2] # "raised"]_vars

\* C25: while the plant is not complete, its attributes and its websocket
\* info are empty, and only add_dli makes it complete.
C25_AsClaimed ==
    [][/\ (last' \in {"get_info", "read_attributes"}
            /\ plant_data = "incomplete" /\ ws_response'[2] = "result")
          => ws_response'[3] = "empty"
       /\ (plant_data # "complete" /\ plant_data' = "complete")
          => last' = "add_dli"]_vars

\* The chunks 0..total_chunks-1 of one upload.
WholeUpload(u) == [i \in 1..TotalChunks |-> <<u, i - 1>>]

\* C30: a final image file is the concatenation of the chunks
\* 0..total_chunks-1 of one single upload, also when the requests of two
\* uploads for the plant interleave.
C30_AsClaimed ==
    \A n \in FileNames :
        image_files[n] # NoFile => \E u \in Uploads : image_files[n] = WholeUpload(u)

\* C34: an upload request that fails on a file operation leaves the plant's
\* entity picture, which is also stored in its config entry, and its images
\* list as they were before the request.
C34_AsClaimed ==
    [][(last' = "upload_image" /\ ws_response'[3] = "upload_failed")
          => entity_picture' = entity_picture /\ images' = images]_vars

\* ---- properties of the phase dates section ----

\* C31: every change of the select's phase, selected or derived from the
\* member, stamps the start date of the phase entered unless that is Removed,
\* and stores the whole days spent in the phase left.
C31_AsClaimed ==
    [][dated_option' # dated_option
          => /\ dated_option' # GROWTH_PHASE_REMOVED
                   => phase_begin'[dated_option'] = half_day
             /\ phase_begin[dated_option] # None
                   => phase_dauer'[dated_option] =
                          ElapsedDays(phase_begin[dated_option], half_day)]_vars

\* ---- properties of the total consumption section ----

\* C32: the total water consumption never decreases, whatever readings
\* arrive and whenever the host restarts.
C32_AsClaimed == [][total_value' >= total_value]_vars

\* ---- properties of the tracking section ----

\* C33: once a meter was pointed to another external sensor, or to none, a
\* state change of a sensor that is not the one it tracks leaves the meter's
\* value as it was.
C33_AsClaimed ==
    [][(/\ last' = "track_event"
        /\ track_event'[2] # track_external[track_event'[1]])
          => track_value' = track_value]_vars

\* C37: a meter that finds no known value of its external sensor reports
\* its default state, 7.0 for the pH meter and 0 for the others.
C37_AsClaimed ==
    [][(/\ last' \in {"track_event", "track_update"}
        /\ ~Known(track_event'[3]))
          => track_value'[track_event'[1]] =
                 IF track_event'[1] = "ph" THEN 70 ELSE 0]_vars

\* ---- properties of the rating section ----

\* C35: the health history only grows at its end: each rating that is set
\* appends exactly one entry carrying that rating, and no step, a restart of
\* the existing device included, removes or alters an entry already there.
C35_AsClaimed ==
    [][/\ Len(health_history') >= Len(health_history)
       /\ SubSeq(health_history', 1, Len(health_history)) = health_history
       /\ (last' = "set_rating" =>
              /\ Len(health_history') = Len(health_history) + 1
              /\ health_history'[Len(health_history')][2] = health_value')]_vars

\* ---- properties of the capacity section ----

\* C36: whenever a member's water capacity is set, the cycle's water
\* capacity becomes the aggregate of its members' capacities under the
\* method configured for water capacity.
C36_AsClaimed ==
    [][(last' = "set_capacity"
        /\ \E p \in CapacityPlants :
              InSeq(p, capacity_members) /\ member_capacity'[p] # member_capacity[p])
          => cycle_capacity' =
                 AggregateCapacities(water_capacity_aggregation,
                                     MemberCapacities(member_capacity'))]_vars

\* ---- properties of the area section ----

\* C38: the handler of a change of the cycle's area to a room creates the
\* task propagating that room, and once the task ran the registry area of
\* every member plant is that room.
C38_AsClaimed ==
    [][/\ (last' = "cycle_area_event" /\ cycle_area # NoArea)
             => area_jobs'[Len(area_jobs')] = <<"propagate", cycle_area>>
       /\ last' = "propagate_area"
             => \A i \in 1..Len(AreaMembers) :
                   member_area'[AreaMembers[i]] = area_ran'[2]]_vars

\* ---- properties of the membership section ----

\* C39: every entry of a cycle's member list is a device of the plant type;
\* no cycle, the cycle itself least of all, is ever a member of a cycle.
C39_AsClaimed ==
    \A c \in DomainEntities :
        DeviceTypeOf(c) = DEVICE_TYPE_CYCLE =>
            \A i \in 1..Len(device_members[c]) :
                DeviceTypeOf(device_members[c][i]) = DEVICE_TYPE_PLANT

====
